---------------------------- MODULE Spec2Model ----------------------------
(***************************************************************************)
(* A model of reftar: the archive codec (format.rs), the deduplicating     *)
(* ArchiveCreator (create.rs) and the ArchiveExtractor (extract.rs).       *)
(* The archive is a sequence of bytes; strings are sequences of bytes.     *)
(***************************************************************************)
EXTENDS Integers, Sequences, FiniteSets, TLC

(***************************************************************************)
(* Bytes and little-endian integers.                                       *)
(***************************************************************************)
Byte == 0..255

Zeros(n) == [i \in 1..n |-> 0]

\* n.to_le_bytes() of a w-byte unsigned integer
RECURSIVE ToLe(_, _)
ToLe(n, w) == IF w = 0 THEN <<>> ELSE <<n % 256>> \o ToLe(n \div 256, w - 1)

\* uN::from_le_bytes(s)
RECURSIVE FromLe(_)
FromLe(s) == IF s = <<>> THEN 0 ELSE s[1] + 256 * FromLe(Tail(s))

\* s[from .. from+n) of a byte sequence, positions counted from 0
Slice(s, from, n) == SubSeq(s, from + 1, from + n)

\* Op(v), with v evaluated once
With(v, Op(_)) == CHOOSE r \in {Op(x) : x \in {v}} : TRUE

(***************************************************************************)
(* CRC-32 (IEEE, reflected) as crc32fast::hash computes it.  A u32         *)
(* checksum is kept as its four little-endian bytes.                       *)
(***************************************************************************)
RECURSIVE XorBits(_, _, _)
XorBits(a, b, n) ==
    IF n = 0 THEN 0
    ELSE ((a + b) % 2) + 2 * XorBits(a \div 2, b \div 2, n - 1)

XorNibble == [a \in 0..15 |-> [b \in 0..15 |-> XorBits(a, b, 4)]]

Xor8(a, b) == 16 * XorNibble[a \div 16][b \div 16] + XorNibble[a % 16][b % 16]

Xor32(c, d) == <<Xor8(c[1], d[1]), Xor8(c[2], d[2]), Xor8(c[3], d[3]), Xor8(c[4], d[4])>>

\* c >> 1 on the four little-endian bytes of a u32
Shr1(c) == <<(c[1] \div 2) + 128 * (c[2] % 2), (c[2] \div 2) + 128 * (c[3] % 2),
             (c[3] \div 2) + 128 * (c[4] % 2), c[4] \div 2>>

\* 0xEDB88320
CrcPoly == <<32, 131, 184, 237>>

RECURSIVE CrcBitSteps(_, _)
CrcBitSteps(c, k) ==
    IF k = 0 THEN c
    ELSE CrcBitSteps(IF c[1] % 2 = 1 THEN Xor32(Shr1(c), CrcPoly) ELSE Shr1(c), k - 1)

CrcTable == [i \in Byte |-> CrcBitSteps(<<i, 0, 0, 0>>, 8)]

\* the state c after the bytes from..to of data, the first half of them first
RECURSIVE CrcUpdate(_, _, _, _)
CrcUpdate(c, data, from, to) ==
    IF from > to THEN c
    ELSE IF from = to
    THEN With(c, LAMBDA s : Xor32(CrcTable[Xor8(s[1], data[from])], <<s[2], s[3], s[4], 0>>))
    ELSE With(CrcUpdate(c, data, from, (from + to) \div 2), LAMBDA s :
              CrcUpdate(s, data, (from + to) \div 2 + 1, to))

Crc32(data) ==
    Xor32(CrcUpdate(<<255, 255, 255, 255>>, data, 1, Len(data)), <<255, 255, 255, 255>>)


(***************************************************************************)
(* UTF-8, as String::from_utf8 and String::from_utf8_lossy decide it.      *)
(***************************************************************************)
InRange(b, lo, hi) == lo <= b /\ b <= hi

\* number of continuation bytes the lead byte b announces (0: no valid lead)
Utf8Need(b) ==
    IF InRange(b, 194, 223) THEN 1
    ELSE IF InRange(b, 224, 239) THEN 2
    ELSE IF InRange(b, 240, 244) THEN 3
    ELSE 0

\* the range the first continuation byte must lie in
Utf8SecondLo(b) == IF b = 224 THEN 160 ELSE IF b = 240 THEN 144 ELSE 128
Utf8SecondHi(b) == IF b = 237 THEN 159 ELSE IF b = 244 THEN 143 ELSE 191

\* the sequence starting at s[i]: a valid character of len bytes, or an
\* invalid sequence of len bytes (the maximal subpart, replaced by U+FFFD)
Utf8At(s, i) ==
    LET b == s[i]
        n == Utf8Need(b)
        has(k) == i + k <= Len(s)
    IN  IF b < 128 THEN [valid |-> TRUE, len |-> 1]
        ELSE IF n = 0 THEN [valid |-> FALSE, len |-> 1]
        ELSE IF ~(has(1) /\ InRange(s[i + 1], Utf8SecondLo(b), Utf8SecondHi(b)))
             THEN [valid |-> FALSE, len |-> 1]
        ELSE IF n = 1 THEN [valid |-> TRUE, len |-> 2]
        ELSE IF ~(has(2) /\ InRange(s[i + 2], 128, 191)) THEN [valid |-> FALSE, len |-> 2]
        ELSE IF n = 2 THEN [valid |-> TRUE, len |-> 3]
        ELSE IF ~(has(3) /\ InRange(s[i + 3], 128, 191)) THEN [valid |-> FALSE, len |-> 3]
        ELSE [valid |-> TRUE, len |-> 4]

\* the first byte at or after s[i] that is not ASCII (0: there is none); a
\* run of ASCII bytes is valid and is copied as it is
NextNonAscii(s, i) ==
    LET high == {j \in i..Len(s) : s[j] >= 128}
    IN  IF high = {} THEN 0 ELSE CHOOSE j \in high : \A k \in high : j <= k

RECURSIVE Utf8ValidFrom(_, _)
Utf8ValidFrom(s, i) ==
    LET j == NextNonAscii(s, i)
    IN  IF j = 0 THEN TRUE
        ELSE Utf8At(s, j).valid /\ Utf8ValidFrom(s, j + Utf8At(s, j).len)

Utf8Valid(s) == Utf8ValidFrom(s, 1)

RECURSIVE Utf8LossyFrom(_, _)
Utf8LossyFrom(s, i) ==
    LET j == NextNonAscii(s, i)
        c == Utf8At(s, j)
    IN  IF j = 0 THEN SubSeq(s, i, Len(s))
        ELSE SubSeq(s, i, j - 1)
             \o (IF c.valid THEN SubSeq(s, j, j + c.len - 1) ELSE <<239, 191, 189>>)
             \o Utf8LossyFrom(s, j + c.len)

Utf8Lossy(s) == Utf8LossyFrom(s, 1)

\* str::trim_end_matches('\0')
TrimEndNul(s) ==
    LET kept == {i \in DOMAIN s : s[i] # 0}
    IN  SubSeq(s, 1, IF kept = {} THEN 0 ELSE CHOOSE i \in kept : \A j \in kept : j <= i)

(***************************************************************************)
(* format.rs: constants, error messages, usize arithmetic.                 *)
(***************************************************************************)
REFTAR_MAGIC == <<114, 101, 102, 116, 97, 114>>
REFTAR_VERSION == 1
DEFAULT_BLOCK_SIZE == 4096
FILE_HEADER_MAGIC == <<70, 73, 76, 69>>

\* the messages of the errors the codec and the extractor raise
ErrEof == "failed to fill whole buffer"
ErrArchiveMagic == "Invalid reftar magic bytes"
ErrFileMagic == "Invalid file header magic"
ErrFileType == "Invalid file type"
ErrExtentType == "Invalid extent type"
ErrUtf8 == "invalid utf-8 sequence"
ErrChecksum == "Checksum mismatch for extent"
ErrUnknownExtent == "Reference to unknown extent ID"
ErrIo == "io error"
ErrPanic == "panic"
NoErr == "ok"

\* 2^k modulo m, by squaring
RECURSIVE Pow2Mod(_, _)
Pow2Mod(k, m) ==
    IF k = 0 THEN 1 % m
    ELSE IF k % 2 = 1 THEN (2 * Pow2Mod(k - 1, m)) % m
    ELSE With(Pow2Mod(k \div 2, m), LAMBDA r : (r * r) % m)

\* (block_size as usize - header_size) % block_size as usize, on a 64-bit
\* usize: the subtraction panics with overflow checks on and wraps without;
\* the remainder panics when block_size is 0.
PadSub(block_size, header_size, checks) ==
    IF block_size = 0 THEN [panic |-> TRUE, pad |-> 0]
    ELSE IF block_size >= header_size
         THEN [panic |-> FALSE, pad |-> (block_size - header_size) % block_size]
    ELSE IF checks THEN [panic |-> TRUE, pad |-> 0]
    ELSE [panic |-> FALSE,
          pad |-> (Pow2Mod(64, block_size) + block_size
                   - ((header_size - block_size) % block_size)) % block_size]

\* (block_size - (size % block_size)) % block_size
PadMod(block_size, size) ==
    IF block_size = 0 THEN [panic |-> TRUE, pad |-> 0]
    ELSE [panic |-> FALSE, pad |-> (block_size - (size % block_size)) % block_size]

\* reader.read_exact of n bytes at position pos of the byte sequence s
ReadExact(s, pos, n) ==
    IF pos + n <= Len(s)
    THEN [err |-> NoErr, pos |-> pos + n, val |-> Slice(s, pos, n)]
    ELSE [err |-> ErrEof, pos |-> Len(s), val |-> <<>>]

(***************************************************************************)
(* ArchiveHeader.                                                          *)
(***************************************************************************)
ARCHIVE_HEADER_SIZE == 12

ArchiveHeaderNew(block_size) == [version |-> REFTAR_VERSION, block_size |-> block_size]

ArchiveHeaderWrite(h, checks) ==
    LET p == PadSub(h.block_size, ARCHIVE_HEADER_SIZE, checks)
        fields == REFTAR_MAGIC \o ToLe(h.version, 2) \o ToLe(h.block_size, 4)
    IN  IF p.panic THEN [err |-> ErrPanic, bytes |-> fields]
        ELSE [err |-> NoErr, bytes |-> fields \o Zeros(p.pad)]

ArchiveHeaderRead(s, pos, checks) ==
    LET magic == ReadExact(s, pos, 6)
        version == ReadExact(s, magic.pos, 2)
        bsize == ReadExact(s, version.pos, 4)
        block_size == FromLe(bsize.val)
        p == PadSub(block_size, ARCHIVE_HEADER_SIZE, checks)
        padding == ReadExact(s, bsize.pos, p.pad)
        fail(e, at) == [err |-> e, pos |-> at, val |-> ArchiveHeaderNew(0)]
    IN  IF magic.err # NoErr THEN fail(magic.err, magic.pos)
        ELSE IF magic.val # REFTAR_MAGIC THEN fail(ErrArchiveMagic, magic.pos)
        ELSE IF version.err # NoErr THEN fail(version.err, version.pos)
        ELSE IF bsize.err # NoErr THEN fail(bsize.err, bsize.pos)
        ELSE IF p.panic THEN fail(ErrPanic, bsize.pos)
        ELSE IF padding.err # NoErr THEN fail(padding.err, padding.pos)
        ELSE [err |-> NoErr, pos |-> padding.pos,
              val |-> [version |-> FromLe(version.val), block_size |-> block_size]]

(***************************************************************************)
(* ExtentHeader.                                                           *)
(***************************************************************************)
EXTENT_HEADER_SIZE == 25

ExtentTypeByte(t) == CASE t = "Data" -> 68 [] t = "Sparse" -> 83 [] t = "Reference" -> 82

ExtentTypeFromByte(b) ==
    CASE b = 68 -> "Data" [] b = 83 -> "Sparse" [] b = 82 -> "Reference" [] OTHER -> "Invalid"

NullExtentHeader ==
    [extent_id |-> 0, length_in_blocks |-> 0, extent_type |-> "Invalid",
     source_extent_start |-> 0, checksum |-> <<0, 0, 0, 0>>]

ExtentHeaderWrite(h, block_size, checks) ==
    LET p == PadSub(block_size, EXTENT_HEADER_SIZE, checks)
        fields == ToLe(h.extent_id, 8) \o ToLe(h.length_in_blocks, 4)
                  \o <<ExtentTypeByte(h.extent_type)>>
                  \o ToLe(h.source_extent_start, 8) \o h.checksum
    IN  IF p.panic THEN [err |-> ErrPanic, bytes |-> fields]
        ELSE [err |-> NoErr, bytes |-> fields \o Zeros(p.pad)]

ExtentHeaderRead(s, pos, block_size, checks) ==
    LET id == ReadExact(s, pos, 8)
        len == ReadExact(s, id.pos, 4)
        ty == ReadExact(s, len.pos, 1)
        extent_type == ExtentTypeFromByte(ty.val[1])
        start == ReadExact(s, ty.pos, 8)
        sum == ReadExact(s, start.pos, 4)
        p == PadSub(block_size, EXTENT_HEADER_SIZE, checks)
        padding == ReadExact(s, sum.pos, p.pad)
        fail(e, at) == [err |-> e, pos |-> at, val |-> NullExtentHeader]
    IN  IF id.err # NoErr THEN fail(id.err, id.pos)
        ELSE IF len.err # NoErr THEN fail(len.err, len.pos)
        ELSE IF ty.err # NoErr THEN fail(ty.err, ty.pos)
        ELSE IF extent_type = "Invalid" THEN fail(ErrExtentType, ty.pos)
        ELSE IF start.err # NoErr THEN fail(start.err, start.pos)
        ELSE IF sum.err # NoErr THEN fail(sum.err, sum.pos)
        ELSE IF p.panic THEN fail(ErrPanic, sum.pos)
        ELSE IF padding.err # NoErr THEN fail(padding.err, padding.pos)
        ELSE [err |-> NoErr, pos |-> padding.pos,
              val |-> [extent_id |-> FromLe(id.val), length_in_blocks |-> FromLe(len.val),
                       extent_type |-> extent_type,
                       source_extent_start |-> FromLe(start.val), checksum |-> sum.val]]

(***************************************************************************)
(* FileHeader.  file_size is a u128, kept as lo (its low 64 bits, which is *)
(* file_size as u64), mid (the next 32 bits) and hi (its high 32 bits):    *)
(* the codec stores the low 12 bytes only.                                 *)
(***************************************************************************)
U128(n) == [lo |-> n, mid |-> 0, hi |-> 0]

\* file_size.to_le_bytes(), 16 bytes
U128ToLe(v) == ToLe(v.lo, 8) \o ToLe(v.mid, 4) \o ToLe(v.hi, 4)

\* u128::from_le_bytes of a 16-byte buffer
U128FromLe(buf) ==
    [lo |-> FromLe(SubSeq(buf, 1, 8)), mid |-> FromLe(SubSeq(buf, 9, 12)),
     hi |-> FromLe(SubSeq(buf, 13, 16))]

\* file_size < block_size as u128, file_size > 0
U128Lt(v, n) == v.hi = 0 /\ v.mid = 0 /\ v.lo < n
U128Pos(v) == v.hi > 0 \/ v.mid > 0 \/ v.lo > 0

FileTypeByte(t) ==
    CASE t = "Regular" -> 48 [] t = "HardLink" -> 49 [] t = "SymbolicLink" -> 50
      [] t = "CharDevice" -> 51 [] t = "BlockDevice" -> 52 [] t = "Directory" -> 53
      [] t = "FIFO" -> 54

FileTypeFromByte(b) ==
    CASE b = 48 -> "Regular" [] b = 49 -> "HardLink" [] b = 50 -> "SymbolicLink"
      [] b = 51 -> "CharDevice" [] b = 52 -> "BlockDevice" [] b = 53 -> "Directory"
      [] b = 54 -> "FIFO" [] OTHER -> "Invalid"

FS_TYPE_LEN == 128

NullFileHeader ==
    [file_size |-> U128(0), file_type |-> "Invalid", uid |-> 0, gid |-> 0,
     device_major |-> 0, device_minor |-> 0, access_time |-> 0, modify_time |-> 0,
     creation_time |-> 0, username |-> <<>>, groupname |-> <<>>, file_path |-> <<>>,
     file_name |-> <<>>, link_name |-> <<>>, extended_permissions |-> <<>>,
     source_filesystem_type |-> <<>>, source_filesystem_id |-> 0, inline_data |-> <<>>]

calculate_size(h) ==
    4 + 4 + 12 + 1 + 8 + 8 + 8 + 8 + 8 + 8 + 8
    + 4 + Len(h.username) + 4 + Len(h.groupname) + 4 + Len(h.file_path)
    + 4 + Len(h.file_name) + 4 + Len(h.link_name) + 4 + Len(h.extended_permissions)
    + FS_TYPE_LEN + 8 + Len(h.inline_data)

\* write_length_prefixed_string with a length prefix of two bytes
write_length_prefixed_string_u16(str) == ToLe(Len(str), 2) \o str

write_length_prefixed_string(str) == ToLe(Len(str), 4) \o str

FileHeaderWrite(h, block_size) ==
    LET header_size == calculate_size(h)
        copy_len == IF Len(h.source_filesystem_type) < FS_TYPE_LEN
                    THEN Len(h.source_filesystem_type) ELSE FS_TYPE_LEN
        fs_type_buf == SubSeq(h.source_filesystem_type, 1, copy_len)
                       \o Zeros(FS_TYPE_LEN - copy_len)
        fields == FILE_HEADER_MAGIC \o ToLe(header_size, 4)
                  \o SubSeq(U128ToLe(h.file_size), 1, 12)
                  \o <<FileTypeByte(h.file_type)>>
                  \o ToLe(h.uid, 8) \o ToLe(h.gid, 8)
                  \o ToLe(h.device_major, 8) \o ToLe(h.device_minor, 8)
                  \o ToLe(h.access_time, 8) \o ToLe(h.modify_time, 8)
                  \o ToLe(h.creation_time, 8)
                  \o write_length_prefixed_string(h.username)
                  \o write_length_prefixed_string(h.groupname)
                  \o write_length_prefixed_string(h.file_path)
                  \o write_length_prefixed_string(h.file_name)
                  \o write_length_prefixed_string(h.link_name)
                  \o ToLe(Len(h.extended_permissions), 4) \o h.extended_permissions
                  \o fs_type_buf
                  \o ToLe(h.source_filesystem_id, 8)
                  \o h.inline_data
        p == PadMod(block_size, header_size)
    IN  IF p.panic THEN [err |-> ErrPanic, bytes |-> fields]
        ELSE [err |-> NoErr, bytes |-> fields \o Zeros(p.pad)]

read_length_prefixed_string(s, pos) ==
    LET len == ReadExact(s, pos, 4)
        buf == ReadExact(s, len.pos, FromLe(len.val))
    IN  IF len.err # NoErr THEN len
        ELSE IF buf.err # NoErr THEN buf
        ELSE IF ~Utf8Valid(buf.val) THEN [err |-> ErrUtf8, pos |-> buf.pos, val |-> <<>>]
        ELSE buf

FileHeaderRead(s, pos, block_size) ==
    LET magic == ReadExact(s, pos, 4)
        hsize == ReadExact(s, magic.pos, 4)
        header_size == FromLe(hsize.val)
        fsize == ReadExact(s, hsize.pos, 12)
        file_size == U128FromLe(fsize.val \o Zeros(4))
        ftype == ReadExact(s, fsize.pos, 1)
        file_type == FileTypeFromByte(ftype.val[1])
        uid == ReadExact(s, ftype.pos, 8)
        gid == ReadExact(s, uid.pos, 8)
        dmaj == ReadExact(s, gid.pos, 8)
        dmin == ReadExact(s, dmaj.pos, 8)
        atime == ReadExact(s, dmin.pos, 8)
        mtime == ReadExact(s, atime.pos, 8)
        ctime == ReadExact(s, mtime.pos, 8)
        username == read_length_prefixed_string(s, ctime.pos)
        groupname == read_length_prefixed_string(s, username.pos)
        file_path == read_length_prefixed_string(s, groupname.pos)
        file_name == read_length_prefixed_string(s, file_path.pos)
        link_name == read_length_prefixed_string(s, file_name.pos)
        eplen == ReadExact(s, link_name.pos, 4)
        eperm == ReadExact(s, eplen.pos, FromLe(eplen.val))
        fstype == ReadExact(s, eperm.pos, FS_TYPE_LEN)
        fsid == ReadExact(s, fstype.pos, 8)
        has_inline == U128Lt(file_size, block_size) /\ file_type = "Regular"
        inline == IF has_inline THEN ReadExact(s, fsid.pos, file_size.lo)
                  ELSE [err |-> NoErr, pos |-> fsid.pos, val |-> <<>>]
        p == PadMod(block_size, header_size)
        padding == ReadExact(s, inline.pos, p.pad)
        fail(r) == [err |-> r.err, pos |-> r.pos, val |-> NullFileHeader]
        failWith(e, at) == [err |-> e, pos |-> at, val |-> NullFileHeader]
    IN  IF magic.err # NoErr THEN fail(magic)
        ELSE IF magic.val # FILE_HEADER_MAGIC THEN failWith(ErrFileMagic, magic.pos)
        ELSE IF hsize.err # NoErr THEN fail(hsize)
        ELSE IF fsize.err # NoErr THEN fail(fsize)
        ELSE IF ftype.err # NoErr THEN fail(ftype)
        ELSE IF file_type = "Invalid" THEN failWith(ErrFileType, ftype.pos)
        ELSE IF ctime.err # NoErr THEN fail(ctime)
        ELSE IF username.err # NoErr THEN fail(username)
        ELSE IF groupname.err # NoErr THEN fail(groupname)
        ELSE IF file_path.err # NoErr THEN fail(file_path)
        ELSE IF file_name.err # NoErr THEN fail(file_name)
        ELSE IF link_name.err # NoErr THEN fail(link_name)
        ELSE IF eplen.err # NoErr THEN fail(eplen)
        ELSE IF eperm.err # NoErr THEN fail(eperm)
        ELSE IF fstype.err # NoErr THEN fail(fstype)
        ELSE IF fsid.err # NoErr THEN fail(fsid)
        ELSE IF inline.err # NoErr THEN fail(inline)
        ELSE IF p.panic THEN failWith(ErrPanic, inline.pos)
        ELSE IF padding.err # NoErr THEN fail(padding)
        ELSE [err |-> NoErr, pos |-> padding.pos,
              val |-> [file_size |-> file_size, file_type |-> file_type,
                       uid |-> FromLe(uid.val), gid |-> FromLe(gid.val),
                       device_major |-> FromLe(dmaj.val), device_minor |-> FromLe(dmin.val),
                       access_time |-> FromLe(atime.val), modify_time |-> FromLe(mtime.val),
                       creation_time |-> FromLe(ctime.val),
                       username |-> username.val, groupname |-> groupname.val,
                       file_path |-> file_path.val, file_name |-> file_name.val,
                       link_name |-> link_name.val, extended_permissions |-> eperm.val,
                       source_filesystem_type |-> TrimEndNul(Utf8Lossy(fstype.val)),
                       source_filesystem_id |-> FromLe(fsid.val),
                       inline_data |-> inline.val]]

(***************************************************************************)
(* Paths (std::path) on byte strings: '/' is 47, '.' is 46.                *)
(***************************************************************************)
Sep == 47
None == [some |-> FALSE, val |-> <<>>]
Some(v) == [some |-> TRUE, val |-> v]
UnwrapOr(o, d) == IF o.some THEN o.val ELSE d

\* the segments of s between separators, from position i, cur the one begun
RECURSIVE SplitFrom(_, _, _)
SplitFrom(s, i, cur) ==
    IF i > Len(s) THEN <<cur>>
    ELSE IF s[i] = Sep THEN <<cur>> \o SplitFrom(s, i + 1, <<>>)
    ELSE SplitFrom(s, i + 1, Append(cur, s[i]))

IsAbsolute(s) == s # <<>> /\ s[1] = Sep

\* Path::components without the root: empty segments and "." are dropped
Components(s) == SelectSeq(SplitFrom(s, 1, <<>>), LAMBDA c : c # <<>> /\ c # <<46>>)

RECURSIVE JoinComponents(_)
JoinComponents(cs) ==
    IF cs = <<>> THEN <<>>
    ELSE IF Len(cs) = 1 THEN cs[1]
    ELSE cs[1] \o <<Sep>> \o JoinComponents(Tail(cs))

\* Path::parent
PathParent(s) ==
    LET cs == Components(s)
    IN  IF cs = <<>> THEN None
        ELSE Some((IF IsAbsolute(s) THEN <<Sep>> ELSE <<>>)
                  \o JoinComponents(SubSeq(cs, 1, Len(cs) - 1)))

\* Path::file_name: None when the path ends in ".." or has no component
PathFileName(s) ==
    LET cs == Components(s)
    IN  IF cs = <<>> \/ cs[Len(cs)] = <<46, 46>> THEN None ELSE Some(cs[Len(cs)])

\* Path::join (PathBuf::push): an absolute right side replaces the left
PathJoin(a, b) ==
    IF IsAbsolute(b) THEN b
    ELSE IF a # <<>> /\ a[Len(a)] # Sep THEN a \o <<Sep>> \o b
    ELSE a \o b

(***************************************************************************)
(* The source tree the creator reads.  Names: "d" 100, "s" 115, "k" 107,   *)
(* "e" 101, "xp" 120 112, "yx" 121 120, "c" 99, "l" 108.                   *)
(***************************************************************************)
BlockX == [i \in 1..32 |-> 1]
BlockY == [i \in 1..32 |-> 2]
\* a block that differs from BlockX and has the same CRC-32
BlockC == [i \in 1..28 |-> 3] \o <<44, 61, 178, 108>>

SrcFile(data) == [kind |-> "file", data |-> data, target |-> <<>>, children |-> {}, len |-> Len(data)]
SrcDir(children) == [kind |-> "dir", data |-> <<>>, target |-> <<>>, children |-> children, len |-> 4096]
SrcLink(target) == [kind |-> "symlink", data |-> <<>>, target |-> target, children |-> {}, len |-> Len(target)]

P_xp == <<120, 112>>
P_yx == <<121, 120>>
P_c == <<99>>
P_l == <<108>>
P_d == <<100>>
P_d_s == <<100, 47, 115>>
P_d_k == <<100, 47, 107>>
P_d_k_e == <<100, 47, 107, 47, 101>>

SourcePaths == {P_xp, P_yx, P_c, P_l, P_d, P_d_s, P_d_k, P_d_k_e}

SourceFs ==
    [p \in SourcePaths |->
        CASE p = P_xp -> SrcFile(BlockX \o <<5, 6>>)
          [] p = P_yx -> SrcFile(BlockY \o BlockX)
          [] p = P_c -> SrcFile(BlockC)
          [] p = P_l -> SrcLink(P_xp)
          [] p = P_d -> SrcDir({<<115>>, <<107>>})
          [] p = P_d_s -> SrcFile(<<97, 98, 99>>)
          [] p = P_d_k -> SrcDir({<<101>>})
          [] p = P_d_k_e -> SrcFile(<<>>)]

\* fs::metadata and File::open follow symbolic links
RECURSIVE Resolve(_)
Resolve(p) == IF SourceFs[p].kind = "symlink" THEN Resolve(SourceFs[p].target) ELSE p

Metadata(p) == SourceFs[Resolve(p)]

\* the owner, times and filesystem the source tree reports
SRC_UID == 1000
SRC_GID == 100
SRC_ATIME == 3
SRC_MTIME == 2
SRC_CTIME == 1
SRC_DEV == 7
\* "u", "g", "tmpfs"
SRC_USERNAME == <<117>>
SRC_GROUPNAME == <<103>>
SRC_FS_TYPE == <<116, 109, 112, 102, 115>>

(***************************************************************************)
(* create.rs: ArchiveCreator.  A creator state c is a record               *)
(* [archive, extent_map, next_extent_id, written, err]; written is the log *)
(* of the records written so far.                                          *)
(***************************************************************************)
\* the writer: append the bytes w of a record and log it, unless an earlier
\* step already failed
Emit(c, w, kind, header, source) ==
    IF c.err # NoErr THEN c
    ELSE [c EXCEPT !.archive = @ \o w.bytes, !.err = w.err,
                   !.written = Append(@, [kind |-> kind, header |-> header, source |-> source,
                                          off |-> Len(c.archive), len |-> Len(w.bytes)])]

build_file_header(block_size, source_path, archive_path) ==
    LET metadata == Metadata(source_path)
        file_type == IF metadata.kind = "dir" THEN "Directory"
                     ELSE IF metadata.kind = "symlink" THEN "SymbolicLink"
                     ELSE "Regular"
        file_size == U128(metadata.len)
        inline_data == IF file_type = "Regular" /\ U128Pos(file_size)
                          /\ U128Lt(file_size, block_size)
                       THEN metadata.data ELSE <<>>
        link_name == IF file_type = "SymbolicLink" THEN SourceFs[source_path].target ELSE <<>>
    IN  [file_size |-> file_size, file_type |-> file_type,
         uid |-> SRC_UID, gid |-> SRC_GID, device_major |-> 0, device_minor |-> 0,
         access_time |-> SRC_ATIME, modify_time |-> SRC_MTIME, creation_time |-> SRC_CTIME,
         username |-> SRC_USERNAME, groupname |-> SRC_GROUPNAME,
         file_path |-> UnwrapOr(PathParent(archive_path), <<>>),
         file_name |-> UnwrapOr(PathFileName(archive_path), archive_path),
         link_name |-> link_name, extended_permissions |-> <<>>,
         source_filesystem_type |-> IF file_type = "Regular" THEN SRC_FS_TYPE ELSE <<>>,
         source_filesystem_id |-> IF file_type = "Regular" THEN SRC_DEV ELSE 0,
         inline_data |-> inline_data]

\* DedupLookup with the increment of next_extent_id left out
DedupLookupNoIncrement(c, checksum) ==
    IF checksum \in DOMAIN c.extent_map
    THEN [extent_id |-> c.extent_map[checksum].extent_id, extent_type |-> "Reference",
          next_extent_id |-> c.next_extent_id]
    ELSE [extent_id |-> c.next_extent_id, extent_type |-> "Data",
          next_extent_id |-> c.next_extent_id]

\* DedupLookup with a Reference that carries the next id, not the existing one
DedupLookupFreshReference(c, checksum) ==
    IF checksum \in DOMAIN c.extent_map
    THEN [extent_id |-> c.next_extent_id, extent_type |-> "Reference",
          next_extent_id |-> c.next_extent_id]
    ELSE [extent_id |-> c.next_extent_id, extent_type |-> "Data",
          next_extent_id |-> c.next_extent_id + 1]

\* DedupLookup where a Reference takes an id from the counter as well
DedupLookupReferenceConsumes(c, checksum) ==
    IF checksum \in DOMAIN c.extent_map
    THEN [extent_id |-> c.extent_map[checksum].extent_id, extent_type |-> "Reference",
          next_extent_id |-> c.next_extent_id + 1]
    ELSE [extent_id |-> c.next_extent_id, extent_type |-> "Data",
          next_extent_id |-> c.next_extent_id + 1]

\* DedupLookup that never finds the checksum: every block is new data
DedupLookupAlwaysData(c, checksum) ==
    [extent_id |-> c.next_extent_id, extent_type |-> "Data",
     next_extent_id |-> c.next_extent_id + 1]

\* the extent id and type of a block with this checksum
DedupLookup(c, checksum) ==
    IF checksum \in DOMAIN c.extent_map
    THEN [extent_id |-> c.extent_map[checksum].extent_id, extent_type |-> "Reference",
          next_extent_id |-> c.next_extent_id]
    ELSE [extent_id |-> c.next_extent_id, extent_type |-> "Data",
          next_extent_id |-> c.next_extent_id + 1]

\* one iteration of the block loop of write_file_extents
WriteBlock(c, block_size, checks, source_path, file_size, num_blocks, block_idx) ==
    LET data == Metadata(source_path).data
        block_offset == block_idx * block_size
        block_len == IF block_idx = num_blocks - 1 THEN file_size.lo - block_offset
                     ELSE block_size
        got == IF block_offset + block_len <= Len(data) THEN block_len
               ELSE IF block_offset <= Len(data) THEN Len(data) - block_offset ELSE 0
        block_data == Slice(data, block_offset, got) \o Zeros(block_size - got)
        checksum == Crc32(block_data)
        d == DedupLookup(c, checksum)
        extent_header == [extent_id |-> d.extent_id, length_in_blocks |-> 1,
                          extent_type |-> d.extent_type,
                          source_extent_start |-> block_offset, checksum |-> checksum]
        c1 == [c EXCEPT !.next_extent_id = d.next_extent_id]
        c2 == Emit(c1, ExtentHeaderWrite(extent_header, block_size, checks),
                   "Extent", extent_header, source_path)
        c3 == Emit(c2, [err |-> NoErr, bytes |-> block_data], "Payload", extent_header,
                   source_path)
        info == [extent_id |-> d.extent_id, file_path |-> source_path,
                 offset |-> block_offset, length |-> got, checksum |-> checksum]
    IN  IF c.err # NoErr THEN c
        ELSE IF d.extent_type # "Data" \/ c2.err # NoErr THEN c2
        ELSE [c3 EXCEPT !.extent_map =
                 [k \in DOMAIN @ \cup {checksum} |-> IF k = checksum THEN info ELSE @[k]]]

RECURSIVE WriteBlocks(_, _, _, _, _, _, _)
WriteBlocks(c, block_size, checks, source_path, file_size, num_blocks, block_idx) ==
    IF block_idx >= num_blocks \/ c.err # NoErr THEN c
    ELSE With(WriteBlock(c, block_size, checks, source_path, file_size, num_blocks,
                         block_idx),
              LAMBDA c1 : WriteBlocks(c1, block_size, checks, source_path, file_size,
                                      num_blocks, block_idx + 1))

\* ((file_size + block_size as u128 - 1) / block_size as u128) as u32, on the
\* 16 little-endian bytes of file_size (file_size < 2^64: it is a file length);
\* the result is the four little-endian bytes of the u32
NumBlocks(file_size_le, block_size) ==
    LET RECURSIVE Add(_, _, _)
        \* digits i..16 of n + carry
        Add(n, i, carry) ==
            IF i > 16 THEN <<>>
            ELSE With((n[i] + carry) \div 256, LAMBDA up :
                   <<(n[i] + carry) % 256>> \o Add(n, i + 1, up))
        RECURSIVE Div(_, _, _)
        \* digits 1..i of the quotient of n by block_size, rem carried from above
        Div(n, i, rem) ==
            IF i = 0 THEN <<>>
            ELSE With((rem * 256 + n[i]) % block_size, LAMBDA down :
                   Append(Div(n, i - 1, down), (rem * 256 + n[i]) \div block_size))
    IN  With(Add(file_size_le, 1, block_size - 1), LAMBDA sum :
          SubSeq(Div(sum, 16, 0), 1, 4))

write_file_extents(c, block_size, checks, source_path, file_size) ==
    IF block_size = 0 THEN [c EXCEPT !.err = ErrPanic]
    ELSE With(FromLe(NumBlocks(U128ToLe(file_size), block_size)), LAMBDA num_blocks :
           WriteBlocks(c, block_size, checks, source_path, file_size, num_blocks, 0))

\* add_file that writes extents for every regular file, inline or not
add_file_always_extents(c, block_size, checks, source_path, archive_path) ==
    LET file_header == build_file_header(block_size, source_path, archive_path)
        c1 == Emit(c, FileHeaderWrite(file_header, block_size), "File", file_header,
                   source_path)
    IN  IF file_header.file_type = "Regular"
        THEN write_file_extents(c1, block_size, checks, source_path, file_header.file_size)
        ELSE c1

add_file(c, block_size, checks, source_path, archive_path) ==
    LET file_header == build_file_header(block_size, source_path, archive_path)
        c1 == Emit(c, FileHeaderWrite(file_header, block_size), "File", file_header,
                   source_path)
    IN  IF file_header.file_type = "Regular" /\ file_header.inline_data = <<>>
        THEN write_file_extents(c1, block_size, checks, source_path, file_header.file_size)
        ELSE c1

\* the sequences that enumerate the set S once each (fs::read_dir order)
Enumerations(S) ==
    {f \in [1..Cardinality(S) -> S] : \A i, j \in 1..Cardinality(S) : f[i] = f[j] => i = j}

\* ord gives, for every directory, the order read_dir returns its entries in
RECURSIVE add_directory(_, _, _, _, _, _)
RECURSIVE AddEntries(_, _, _, _, _, _, _, _)
\* AddEntries with a subdirectory added under its own archive path
AddEntriesUnderItself(c, block_size, checks, source_path, archive_path, ord, entries, i) ==
    IF i > Len(entries) \/ c.err # NoErr THEN c
    ELSE LET entry_path == PathJoin(source_path, entries[i])
             rel_path == PathJoin(archive_path, entries[i])
             c1 == IF Metadata(entry_path).kind = "dir"
                   THEN add_directory(c, block_size, checks, entry_path, rel_path, ord)
                   ELSE add_file(c, block_size, checks, entry_path, rel_path)
         IN  AddEntries(c1, block_size, checks, source_path, archive_path, ord, entries, i + 1)

AddEntries(c, block_size, checks, source_path, archive_path, ord, entries, i) ==
    IF i > Len(entries) \/ c.err # NoErr THEN c
    ELSE LET entry_path == PathJoin(source_path, entries[i])
             rel_path == PathJoin(archive_path, entries[i])
             c1 == IF Metadata(entry_path).kind = "dir"
                   THEN add_directory(c, block_size, checks, entry_path, archive_path, ord)
                   ELSE add_file(c, block_size, checks, entry_path, rel_path)
         IN  AddEntries(c1, block_size, checks, source_path, archive_path, ord, entries, i + 1)

add_directory(c, block_size, checks, source_path, archive_base, ord) ==
    LET archive_path == PathJoin(archive_base,
                                 UnwrapOr(PathFileName(source_path), source_path))
        dir_header == build_file_header(block_size, source_path, archive_path)
        c1 == Emit(c, FileHeaderWrite(dir_header, block_size), "File", dir_header,
                   source_path)
    IN  IF Metadata(source_path).kind = "dir"
        THEN AddEntries(c1, block_size, checks, source_path, archive_path, ord,
                        ord[Resolve(source_path)], 1)
        ELSE c1

(***************************************************************************)
(* The output file system: a function from normalized absolute paths to    *)
(* nodes.  An operation returns [err, fs].                                 *)
(***************************************************************************)
MODE_DIR == 493   \* 0o755
MODE_FILE == 420  \* 0o644

DirNode == [kind |-> "dir", data |-> <<>>, mode |-> MODE_DIR, target |-> <<>>]
FileNode(data) == [kind |-> "file", data |-> data, mode |-> MODE_FILE, target |-> <<>>]
LinkNode(target) == [kind |-> "symlink", data |-> <<>>, mode |-> 511, target |-> target]

\* the components of a path with "." dropped and ".." applied
RECURSIVE ApplyDots(_, _)
ApplyDots(cs, acc) ==
    IF cs = <<>> THEN acc
    ELSE IF cs[1] = <<46, 46>>
         THEN ApplyDots(Tail(cs), IF acc = <<>> THEN acc ELSE SubSeq(acc, 1, Len(acc) - 1))
    ELSE ApplyDots(Tail(cs), Append(acc, cs[1]))

Normalize(s) == <<Sep>> \o JoinComponents(ApplyDots(Components(s), <<>>))

DirName(k) == UnwrapOr(PathParent(k), <<Sep>>)

Put(fs, k, node) == [q \in DOMAIN fs \cup {k} |-> IF q = k THEN node ELSE fs[q]]

\* the path a name resolves to when its last component is a symbolic link
RECURSIVE Follow(_, _, _)
Follow(fs, k, depth) ==
    IF k \in DOMAIN fs /\ fs[k].kind = "symlink" /\ depth > 0
    THEN Follow(fs, Normalize(PathJoin(DirName(k), fs[k].target)), depth - 1)
    ELSE k

SYMLOOP_MAX == 40

IsDir(fs, k) == LET t == Follow(fs, k, SYMLOOP_MAX) IN t \in DOMAIN fs /\ fs[t].kind = "dir"

\* fs::create_dir_all
RECURSIVE create_dir_all(_, _)
create_dir_all(fs, k) ==
    IF IsDir(fs, k) THEN [err |-> NoErr, fs |-> fs]
    ELSE IF k \in DOMAIN fs THEN [err |-> ErrIo, fs |-> fs]
    ELSE LET up == create_dir_all(fs, DirName(k))
         IN  IF up.err # NoErr THEN up
             ELSE [err |-> NoErr, fs |-> Put(up.fs, k, DirNode)]

\* File::create, OpenOptions write + create + truncate: the file opened
OpenTruncate(fs, k) ==
    LET t == Follow(fs, k, SYMLOOP_MAX)
    IN  IF ~IsDir(fs, DirName(t)) THEN [err |-> ErrIo, fs |-> fs, file |-> t]
        ELSE IF t \in DOMAIN fs /\ fs[t].kind # "file" THEN [err |-> ErrIo, fs |-> fs, file |-> t]
        ELSE IF t \in DOMAIN fs
             THEN [err |-> NoErr, fs |-> [fs EXCEPT ![t].data = <<>>], file |-> t]
        ELSE [err |-> NoErr, fs |-> Put(fs, t, FileNode(<<>>)), file |-> t]

\* File::open for reading
OpenRead(fs, k) ==
    LET t == Follow(fs, k, SYMLOOP_MAX)
    IN  IF t \in DOMAIN fs /\ fs[t].kind # "symlink"
        THEN [err |-> NoErr, file |-> t] ELSE [err |-> ErrIo, file |-> t]

\* std::os::unix::fs::symlink
symlink(fs, target, k) ==
    IF k \in DOMAIN fs \/ ~IsDir(fs, DirName(k)) THEN [err |-> ErrIo, fs |-> fs]
    ELSE [err |-> NoErr, fs |-> Put(fs, k, LinkNode(target))]

\* File::set_len
SetLen(data, n) == IF n <= Len(data) THEN SubSeq(data, 1, n) ELSE data \o Zeros(n - Len(data))

\* seek(Start(off)) then write_all(bytes)
WriteAt(data, off, bytes) ==
    LET base == IF off > Len(data) THEN data \o Zeros(off - Len(data)) ELSE data
    IN  IF bytes = <<>> THEN data
        ELSE SubSeq(base, 1, off) \o bytes \o SubSeq(base, off + Len(bytes) + 1, Len(base))

(***************************************************************************)
(* reflink.rs: try_reflink_range.  The FICLONERANGE request is refused     *)
(* (EINVAL, Ok(false)) when the source range is not inside the source file *)
(* or overlaps the destination range in the same file; otherwise the       *)
(* outcome is the one the file system gives: "cloned", "unsupported"       *)
(* (EOPNOTSUPP or ENOTTY, Ok(false)) or "failed" (another errno, Err).     *)
(***************************************************************************)
Modes == {"cloned", "unsupported", "failed"}

try_reflink_range(fs, outcome, src, src_offset, dest, dest_offset, length) ==
    LET \* a src_length of 0 asks for the range up to the end of the source
        n == IF length = 0 THEN Len(fs[src].data) - src_offset ELSE length
        inside == src_offset + n <= Len(fs[src].data) /\ n >= 0
        overlap == src = dest /\ src_offset < dest_offset + n /\ dest_offset < src_offset + n
    IN  IF outcome = "cloned" /\ inside /\ ~overlap
        THEN [ok |-> TRUE, err |-> NoErr,
              fs |-> [fs EXCEPT ![dest].data =
                         WriteAt(@, dest_offset, Slice(fs[src].data, src_offset, n))]]
        ELSE IF outcome = "failed" THEN [ok |-> FALSE, err |-> ErrIo, fs |-> fs]
        ELSE [ok |-> FALSE, err |-> NoErr, fs |-> fs]

(***************************************************************************)
(* extract.rs: ArchiveExtractor.  An extractor state e is a record         *)
(*   pos               bytes of the archive its reader has consumed        *)
(*   block_size, extent_cache, output_dir, current_file_path  its fields   *)
(*   pc                "file": extract_all is about to call                *)
(*                     extract_next_file; "extents": it is at the head of  *)
(*                     the loop of extract_file_with_extents; "done"       *)
(*   cur               the locals of the file being extracted              *)
(*   result            what extract_all returned ("none" while it runs)    *)
(*   disk              the output file system, one per reflink outcome     *)
(*   reads             the log of the codec reads: record kind and the     *)
(*                     position after it                                   *)
(*   refused           a try_reflink_range call on the "cloned" disk       *)
(*                     returned Ok(false)                                  *)
(***************************************************************************)
\* "/o"
OUTPUT_DIR == <<47, 111>>

InitialFs == [k \in {<<Sep>>, OUTPUT_DIR} |-> DirNode]

NoCur == [output_path |-> <<>>, file |-> <<>>, file_size |-> U128(0), current_offset |-> 0,
          header |-> NullFileHeader]

\* e.to_string().contains("failed to fill whole buffer")
IsEofMessage(err) == err = ErrEof

\* apply a file-system operation to the disk of every reflink outcome
OnDisks(disk, Op(_)) == [m \in Modes |-> Op(disk[m])]
DiskErr(r) == IF \E m \in Modes : r[m].err # NoErr THEN ErrIo ELSE NoErr
DiskFs(r) == [m \in Modes |-> r[m].fs]

LogRead(e, kind, at) == [e EXCEPT !.reads = Append(@, [kind |-> kind, pos |-> at])]

\* extract_all: what it does with the value extract_next_file returned
ExtractAllOn(e, err) ==
    IF err = "end" \/ IsEofMessage(err) THEN [e EXCEPT !.pc = "done", !.result = "Ok"]
    ELSE [e EXCEPT !.pc = "done", !.result = err]

\* extract_next_file when FileHeader::read failed
NextFileReadFailed(err) == IF IsEofMessage(err) THEN "end" ELSE err

ArchiveExtractorNew(bytes, checks) ==
    LET r == ArchiveHeaderRead(bytes, 0, checks)
        e == [pos |-> r.pos, block_size |-> r.val.block_size,
              extent_cache |-> [id \in {} |-> 0], output_dir |-> OUTPUT_DIR,
              current_file_path |-> None, pc |-> "file", cur |-> NoCur,
              result |-> "none", disk |-> [m \in Modes |-> InitialFs], reads |-> <<>>,
              refused |-> FALSE]
    IN  IF r.err # NoErr THEN [e EXCEPT !.pc = "done", !.result = r.err]
        ELSE LogRead(e, "ArchiveHeader", r.pos)

\* set_file_metadata: fs::metadata follows links and fails on a missing node
set_file_metadata(fs, path, header) ==
    LET t == Follow(fs, path, SYMLOOP_MAX)
        mode == IF header.file_type = "Directory" THEN MODE_DIR ELSE MODE_FILE
    IN  IF t \notin DOMAIN fs \/ fs[t].kind = "symlink" THEN [err |-> ErrIo, fs |-> fs]
        ELSE [err |-> NoErr, fs |-> [fs EXCEPT ![t].mode = mode]]

\* the tail of extract_next_file, after the dispatch on the file type
FinishFile(e, output_path, header) ==
    LET r == OnDisks(e.disk, LAMBDA fs : set_file_metadata(fs, output_path, header))
    IN  IF DiskErr(r) # NoErr THEN ExtractAllOn(e, ErrIo)
        ELSE [e EXCEPT !.disk = DiskFs(r), !.pc = "file", !.cur = NoCur]

\* File::create(output_path) then write_all(data)
CreateWith(fs, path, data) ==
    LET o == OpenTruncate(fs, path)
    IN  IF o.err # NoErr THEN [err |-> o.err, fs |-> fs]
        ELSE [err |-> NoErr, fs |-> [o.fs EXCEPT ![o.file].data = data]]

\* the start of extract_file_with_extents: open, truncate, set_len
OpenSized(fs, path, size) ==
    LET o == OpenTruncate(fs, path)
    IN  IF o.err # NoErr THEN [err |-> o.err, fs |-> fs]
        ELSE [err |-> NoErr, fs |-> [o.fs EXCEPT ![o.file].data = SetLen(@, size)]]

\* create_dir_all(parent) when the output path has a parent
MakeParents(disk, raw_path, output_path) ==
    IF PathParent(raw_path).some
    THEN OnDisks(disk, LAMBDA fs : create_dir_all(fs, DirName(output_path)))
    ELSE OnDisks(disk, LAMBDA fs : [err |-> NoErr, fs |-> fs])

\* a regular file whose content follows as extents
WithExtents(h) == h.file_type = "Regular" /\ h.inline_data = <<>> /\ U128Pos(h.file_size)

\* the match on header.file_type: what is created at output_path
MakeNode(disk, h, output_path) ==
    CASE h.file_type = "Directory" ->
           OnDisks(disk, LAMBDA fs : create_dir_all(fs, output_path))
      [] h.file_type = "SymbolicLink" ->
           OnDisks(disk, LAMBDA fs : symlink(fs, h.link_name, output_path))
      [] h.file_type = "Regular" /\ h.inline_data # <<>> ->
           OnDisks(disk, LAMBDA fs : CreateWith(fs, output_path, h.inline_data))
      [] WithExtents(h) ->
           OnDisks(disk, LAMBDA fs : OpenSized(fs, output_path, h.file_size.lo))
      [] h.file_type = "Regular" /\ h.inline_data = <<>> /\ ~U128Pos(h.file_size) ->
           OnDisks(disk, LAMBDA fs : CreateWith(fs, output_path, <<>>))
      [] OTHER -> OnDisks(disk, LAMBDA fs : [err |-> NoErr, fs |-> fs])

\* the head of the loop of extract_file_with_extents (current_offset <
\* file_size as u64), and after the loop the rest of extract_next_file
AfterExtent(e) ==
    IF e.cur.current_offset < e.cur.file_size.lo THEN e
    ELSE FinishFile([e EXCEPT !.current_file_path = None], e.cur.output_path, e.cur.header)

\* extract_next_file once the node is made: enter the extent loop, or finish
AfterMake(e, h, output_path, made) ==
    IF DiskErr(made) # NoErr
    THEN ExtractAllOn(IF WithExtents(h)
                      THEN [e EXCEPT !.current_file_path = Some(output_path)]
                      ELSE e, ErrIo)
    ELSE IF WithExtents(h)
    THEN AfterExtent(
           [e EXCEPT !.disk = DiskFs(made),
                     !.current_file_path = Some(output_path), !.pc = "extents",
                     !.cur = [output_path |-> output_path,
                              file |-> Follow(made["unsupported"].fs, output_path,
                                              SYMLOOP_MAX),
                              file_size |-> h.file_size, current_offset |-> 0,
                              header |-> h]])
    ELSE FinishFile([e EXCEPT !.disk = DiskFs(made)], output_path, h)

extract_next_file(e, bytes) ==
    With(FileHeaderRead(bytes, e.pos, e.block_size), LAMBDA r :
      IF r.err # NoErr
      THEN ExtractAllOn([e EXCEPT !.pos = r.pos], NextFileReadFailed(r.err))
      ELSE
        With(PathJoin(PathJoin(e.output_dir, r.val.file_path), r.val.file_name),
             LAMBDA raw_path :
        With(Normalize(raw_path), LAMBDA output_path :
        With(LogRead([e EXCEPT !.pos = r.pos], "FileHeader", r.pos), LAMBDA e1 :
        With(MakeParents(e1.disk, raw_path, output_path), LAMBDA parents :
          IF DiskErr(parents) # NoErr THEN ExtractAllOn(e1, ErrIo)
          ELSE With(MakeNode(DiskFs(parents), r.val, output_path), LAMBDA made :
                 AfterMake([e1 EXCEPT !.disk = DiskFs(parents)], r.val, output_path,
                           made)))))))

\* ResolveReference with no copy when the clone was not made
ResolveReferenceNoFallback(fs, outcome, cached, dest, current_offset) ==
    LET loc == cached.file_location
        src == OpenRead(fs, loc.val.path)
        clone == try_reflink_range(fs, outcome, src.file, loc.val.offset, dest,
                                   current_offset, Len(cached.data))
    IN  IF loc.some /\ src.err = NoErr /\ clone.ok THEN clone.fs ELSE fs

\* the Reference arm on one disk: clone from the cached location, or copy
ResolveReference(fs, outcome, cached, dest, current_offset) ==
    LET data_size == Len(cached.data)
        loc == cached.file_location
        src == OpenRead(fs, loc.val.path)
        clone == try_reflink_range(fs, outcome, src.file, loc.val.offset, dest,
                                   current_offset, data_size)
        reflink_used == loc.some /\ src.err = NoErr /\ clone.ok
    IN  IF reflink_used THEN clone.fs
        ELSE [fs EXCEPT ![dest].data = WriteAt(@, current_offset, cached.data)]

\* try_reflink_range was called for the cached extent and returned Ok(false)
ReflinkRefused(fs, outcome, cached, dest, current_offset) ==
    LET loc == cached.file_location
        src == OpenRead(fs, loc.val.path)
    IN  /\ loc.some
        /\ src.err = NoErr
        /\ ~try_reflink_range(fs, outcome, src.file, loc.val.offset, dest, current_offset,
                              Len(cached.data)).ok

\* ExtentData with the checksum compared after the write and the insert
ExtentDataVerifiedLate(e1, bytes, extent_header) ==
    With(ReadExact(bytes, e1.pos, extent_header.length_in_blocks * e1.block_size),
         LAMBDA payload :
      IF payload.err # NoErr
      THEN ExtractAllOn([e1 EXCEPT !.pos = payload.pos], payload.err)
      ELSE
        With([LogRead([e1 EXCEPT !.pos = payload.pos], "Data", payload.pos) EXCEPT
                !.disk = [m \in Modes |->
                            [@[m] EXCEPT ![e1.cur.file].data =
                                           WriteAt(@, e1.cur.current_offset, payload.val)]],
                !.extent_cache =
                    [k \in DOMAIN @ \cup {extent_header.extent_id} |->
                        IF k = extent_header.extent_id
                        THEN [extent_id |-> extent_header.extent_id, data |-> payload.val,
                              file_location |->
                                  Some([path |-> e1.current_file_path.val,
                                        offset |-> e1.cur.current_offset])]
                        ELSE @[k]],
                !.cur.current_offset = @ + Len(payload.val)],
             LAMBDA e2 :
          IF Crc32(payload.val) # extent_header.checksum THEN ExtractAllOn(e2, ErrChecksum)
          ELSE AfterExtent(e2)))

\* the Data arm: read the payload, verify it, write it, cache it
ExtentData(e1, bytes, extent_header) ==
    With(ReadExact(bytes, e1.pos, extent_header.length_in_blocks * e1.block_size),
         LAMBDA payload :
      IF payload.err # NoErr
      THEN ExtractAllOn([e1 EXCEPT !.pos = payload.pos], payload.err)
      ELSE IF Crc32(payload.val) # extent_header.checksum
      THEN ExtractAllOn(LogRead([e1 EXCEPT !.pos = payload.pos], "Data", payload.pos),
                        ErrChecksum)
      ELSE
        With([extent_id |-> extent_header.extent_id, data |-> payload.val,
              file_location |->
                  IF e1.current_file_path.some
                  THEN Some([path |-> e1.current_file_path.val,
                             offset |-> e1.cur.current_offset])
                  ELSE None],
             LAMBDA entry :
          AfterExtent(
            [LogRead([e1 EXCEPT !.pos = payload.pos], "Data", payload.pos) EXCEPT
               !.disk = [m \in Modes |->
                           [@[m] EXCEPT ![e1.cur.file].data =
                                          WriteAt(@, e1.cur.current_offset, payload.val)]],
               !.extent_cache = [k \in DOMAIN @ \cup {entry.extent_id} |->
                                   IF k = entry.extent_id THEN entry ELSE @[k]],
               !.cur.current_offset = @ + Len(payload.val)])))

\* ExtentReference with an unknown extent id passed over as a hole of one block
ExtentReferenceLenient(e1, extent_header) ==
    IF extent_header.extent_id \in DOMAIN e1.extent_cache
    THEN With(e1.extent_cache[extent_header.extent_id], LAMBDA cached :
           AfterExtent(
             [e1 EXCEPT
                !.disk = [m \in Modes |->
                            ResolveReference(@[m], m, cached, e1.cur.file,
                                             e1.cur.current_offset)],
                !.cur.current_offset = @ + Len(cached.data)]))
    ELSE AfterExtent([e1 EXCEPT !.cur.current_offset = @ + e1.block_size])

\* ExtentReference with the cached extent dropped once it has been used
ExtentReferenceEvicts(e1, extent_header) ==
    IF extent_header.extent_id \in DOMAIN e1.extent_cache
    THEN With(e1.extent_cache[extent_header.extent_id], LAMBDA cached :
           AfterExtent(
             [e1 EXCEPT
                !.disk = [m \in Modes |->
                            ResolveReference(@[m], m, cached, e1.cur.file,
                                             e1.cur.current_offset)],
                !.extent_cache = [k \in (DOMAIN @) \ {extent_header.extent_id} |-> @[k]],
                !.cur.current_offset = @ + Len(cached.data)]))
    ELSE ExtractAllOn(e1, ErrUnknownExtent)

\* the Reference arm: the extent must be in the cache
ExtentReference(e1, extent_header) ==
    IF extent_header.extent_id \in DOMAIN e1.extent_cache
    THEN With(e1.extent_cache[extent_header.extent_id], LAMBDA cached :
           AfterExtent(
             [e1 EXCEPT
                !.disk = [m \in Modes |->
                            ResolveReference(@[m], m, cached, e1.cur.file,
                                             e1.cur.current_offset)],
                !.refused = @ \/ ReflinkRefused(e1.disk["cloned"], "cloned", cached,
                                                 e1.cur.file, e1.cur.current_offset),
                !.cur.current_offset = @ + Len(cached.data)]))
    ELSE ExtractAllOn(e1, ErrUnknownExtent)

\* one iteration of the loop of extract_file_with_extents
extract_extent(e, bytes, checks) ==
    With(ExtentHeaderRead(bytes, e.pos, e.block_size, checks), LAMBDA r :
      IF r.err # NoErr THEN ExtractAllOn([e EXCEPT !.pos = r.pos], r.err)
      ELSE
        With(LogRead([e EXCEPT !.pos = r.pos], "ExtentHeader", r.pos), LAMBDA e1 :
          IF r.val.extent_type = "Data" THEN ExtentData(e1, bytes, r.val)
          ELSE IF r.val.extent_type = "Sparse"
          THEN AfterExtent([e1 EXCEPT !.cur.current_offset =
                                         @ + r.val.length_in_blocks * e1.block_size])
          ELSE ExtentReference(e1, r.val)))

\* skip_extents from the head of its loop: seek over the payload of a Data
\* extent (a seek past the end succeeds), advance by length_in_blocks blocks
RECURSIVE skip_extents(_, _, _, _, _)
skip_extents(e, bytes, file_size, current_offset, checks) ==
    IF current_offset >= file_size.lo THEN [err |-> NoErr, e |-> e]
    ELSE
      With(ExtentHeaderRead(bytes, e.pos, e.block_size, checks), LAMBDA r :
        IF r.err # NoErr THEN [err |-> r.err, e |-> [e EXCEPT !.pos = r.pos]]
        ELSE
          With(r.val.length_in_blocks * e.block_size, LAMBDA size :
          With([LogRead(e, "ExtentHeader", r.pos) EXCEPT
                  !.pos = IF r.val.extent_type = "Data" THEN r.pos + size ELSE r.pos],
               LAMBDA e1 :
            skip_extents(e1, bytes, file_size, current_offset + size, checks))))

\* list_files from the head of its loop, files the entries pushed so far
RECURSIVE list_files(_, _, _, _)
list_files(e, bytes, checks, files) ==
    With(FileHeaderRead(bytes, e.pos, e.block_size), LAMBDA r :
      IF r.err # NoErr
      THEN [err |-> IF IsEofMessage(r.err) THEN NoErr ELSE r.err,
            files |-> IF IsEofMessage(r.err) THEN files ELSE <<>>,
            e |-> [e EXCEPT !.pos = r.pos]]
      ELSE
        With(Append(files, r.val.file_path \o <<Sep>> \o r.val.file_name), LAMBDA pushed :
        With(LogRead([e EXCEPT !.pos = r.pos], "FileHeader", r.pos), LAMBDA e1 :
          IF WithExtents(r.val)
          THEN With(skip_extents(e1, bytes, r.val.file_size, 0, checks), LAMBDA skipped :
                 IF skipped.err # NoErr
                 THEN [err |-> skipped.err, files |-> <<>>, e |-> skipped.e]
                 ELSE list_files(skipped.e, bytes, checks, pushed))
          ELSE list_files(e1, bytes, checks, pushed))))

\* a constructor that writes nothing to the sink
ArchiveCreatorNewNoHeader(block_size, checks) ==
    [archive |-> <<>>, extent_map |-> [k \in {} |-> 0], next_extent_id |-> 0,
     written |-> <<>>, err |-> NoErr]

\* ArchiveCreator::new
ArchiveCreatorNew(block_size, checks) ==
    LET header == ArchiveHeaderNew(UnwrapOr(block_size, DEFAULT_BLOCK_SIZE))
    IN  Emit([archive |-> <<>>, extent_map |-> [k \in {} |-> 0], next_extent_id |-> 0,
              written |-> <<>>, err |-> NoErr],
             ArchiveHeaderWrite(header, checks), "Archive", header, <<>>)

(***************************************************************************)
(* The state machine: one creator builds an archive, the archive may be    *)
(* damaged on its way, one extractor extracts it.                          *)
(***************************************************************************)
\* bounds of the model: the add calls made on one creator, and the block
\* sizes of the creators add calls are made on (with the other block sizes
\* of BlockSizes the archive is finished empty)
MaxAdds == 2
MinAddBlockSize == 12
MaxAddBlockSize == 32

\* the block sizes ArchiveCreator::new is called with: None (its val is not
\* read), Some(8), Some(20), Some(32)
BlockSizes == {[some |-> FALSE, val |-> 0]} \cup {Some(b) : b \in {8, 20, 32}}

\* the archive paths add_file is called with: "p", "q"
ArchivePaths == {<<112>>, <<113>>}
AddFileSources == {P_xp, P_yx, P_c, P_l}
AddDirectorySources == {P_d}
\* the archive_base add_directory is called with: ""
ArchiveBases == {<<>>, <<47, 98>>}

Dirs == {p \in SourcePaths : SourceFs[p].kind = "dir"}
ReadDirOrders == {ord \in [Dirs -> UNION {Enumerations(SourceFs[d].children) : d \in Dirs}] :
                    \A d \in Dirs : ord[d] \in Enumerations(SourceFs[d].children)}

VARIABLES
    block_size,       \* the block size of the creator (0: not constructed yet)
    overflow_checks,  \* whether the build panics on integer overflow (debug) or wraps
    phase,            \* "new", "create", "ready", "extract", "end"
    creator,          \* the ArchiveCreator
    calls,            \* the number of add_file and add_directory calls made
    archive,          \* the bytes of the archive file the extractor is given
    damage,           \* what was done to the archive after finish ("none": nothing)
    extractor,        \* the ArchiveExtractor
    lister,           \* the ArchiveExtractor that lists the archive, and what it returned
    codec             \* one function of the program applied on its own

vars == <<block_size, overflow_checks, phase, creator, calls, archive, damage, extractor,
          lister, codec>>

NoCreator == [archive |-> <<>>, extent_map |-> [k \in {} |-> 0], next_extent_id |-> 0,
              written |-> <<>>, err |-> NoErr]
NoExtractor == [pos |-> 0, block_size |-> 0, extent_cache |-> [id \in {} |-> 0],
                output_dir |-> OUTPUT_DIR, current_file_path |-> None, pc |-> "none",
                cur |-> NoCur, result |-> "none",
                disk |-> [m \in Modes |-> InitialFs], reads |-> <<>>, refused |-> FALSE]

\* lister: pc is "none" or "done"; err and files are what list_files
\* returned, e is the extractor it ran on
NoLister == [pc |-> "none", err |-> NoErr, files |-> <<>>, e |-> NoExtractor]

\* codec: pc is "idle", "written", "read" or "counted"; header is the value
\* given to write, out what write produced, back what read returned; for
\* "counted", header is a file length and out the number of blocks
NoCodec == [pc |-> "idle", kind |-> "none", header |-> NullExtentHeader,
            out |-> [err |-> NoErr, bytes |-> <<>>],
            back |-> [err |-> NoErr, pos |-> 0, val |-> NullExtentHeader]]

Init ==
    /\ codec = NoCodec
    /\ block_size = 0
    /\ overflow_checks \in BOOLEAN
    /\ phase = "new"
    /\ creator = NoCreator
    /\ calls = 0
    /\ archive = <<>>
    /\ damage = "none"
    /\ extractor = NoExtractor
    /\ lister = NoLister

\* a creator call returned: a panic ends the process
Created(c) ==
    /\ creator' = c
    /\ phase' = IF c.err = NoErr THEN "create" ELSE "end"
    /\ UNCHANGED <<lister, codec, block_size, overflow_checks, archive, damage, extractor>>

New ==
    /\ phase = "new"
    /\ \E given \in BlockSizes :
         /\ block_size' = UnwrapOr(given, DEFAULT_BLOCK_SIZE)
         /\ creator' = ArchiveCreatorNew(given, overflow_checks)
    /\ phase' = IF creator'.err = NoErr THEN "create" ELSE "end"
    /\ UNCHANGED <<lister, codec, overflow_checks, calls, archive, damage, extractor>>

AddFile(source_path, archive_path) ==
    /\ phase = "create"
    /\ calls < MaxAdds
    /\ block_size \in MinAddBlockSize..MaxAddBlockSize
    /\ calls' = calls + 1
    /\ Created(add_file(creator, block_size, overflow_checks, source_path, archive_path))

AddDirectory(source_path, archive_base, ord) ==
    /\ phase = "create"
    /\ calls < MaxAdds
    /\ block_size \in MinAddBlockSize..MaxAddBlockSize
    /\ calls' = calls + 1
    /\ Created(add_directory(creator, block_size, overflow_checks, source_path,
                             archive_base, ord))

\* finish: the sink now holds every byte written
Finish ==
    /\ phase = "create"
    /\ phase' = "ready"
    /\ archive' = creator.archive
    /\ UNCHANGED <<lister, codec, block_size, overflow_checks, creator, calls, damage, extractor>>

\* the archive loses its tail: only its first n bytes are left
Truncate(n) ==
    /\ phase = "ready"
    /\ damage = "none"
    /\ n < Len(archive)
    /\ archive' = SubSeq(archive, 1, n)
    /\ damage' = "truncated"
    /\ UNCHANGED <<lister, codec, block_size, overflow_checks, phase, creator, calls, extractor>>

\* one byte of the archive is replaced
Patch(at, byte, what) ==
    /\ phase = "ready"
    /\ damage = "none"
    /\ at < Len(archive)
    /\ archive[at + 1] # byte
    /\ archive' = [archive EXCEPT ![at + 1] = byte]
    /\ damage' = what
    /\ UNCHANGED <<lister, codec, block_size, overflow_checks, phase, creator, calls, extractor>>

\* ArchiveExtractor::new on the archive
ExtractorNew ==
    /\ phase = "ready"
    /\ phase' = "extract"
    /\ extractor' = ArchiveExtractorNew(archive, overflow_checks)
    /\ UNCHANGED <<lister, codec, block_size, overflow_checks, creator, calls, archive, damage>>

\* extract_all calls extract_next_file; a regular file with extents leaves
\* it at the head of the extent loop
ExtractNextFile ==
    /\ phase = "extract"
    /\ extractor.pc = "file"
    /\ extractor' = extract_next_file(extractor, archive)
    /\ UNCHANGED <<lister, codec, block_size, overflow_checks, phase, creator, calls, archive, damage>>

\* one iteration of the extent loop; the last one returns to extract_all
ExtractExtent ==
    /\ phase = "extract"
    /\ extractor.pc = "extents"
    /\ extractor' = extract_extent(extractor, archive, overflow_checks)
    /\ UNCHANGED <<lister, codec, block_size, overflow_checks, phase, creator, calls, archive, damage>>

\* list_archive once extraction is over: a new extractor on the same archive,
\* then list_files
ListFiles ==
    /\ phase = "extract"
    /\ extractor.pc = "done"
    /\ lister.pc = "none"
    /\ lister' = With(ArchiveExtractorNew(archive, overflow_checks), LAMBDA e :
                    IF e.result # "none"
                    THEN [pc |-> "done", err |-> e.result, files |-> <<>>, e |-> e]
                    ELSE With(list_files(e, archive, overflow_checks, <<>>), LAMBDA listed :
                           [pc |-> "done", err |-> listed.err, files |-> listed.files,
                            e |-> listed.e]))
    /\ UNCHANGED <<codec, block_size, overflow_checks, phase, creator, calls, archive, damage,
                   extractor>>

\* the records of the archive the creator logged, and where damage is aimed
Cuts == {r.off + d : r \in {creator.written[i] : i \in DOMAIN creator.written},
                     d \in {1, 13}}

Damage ==
    \/ \E n \in Cuts : Truncate(n)
    \/ \E i \in DOMAIN creator.written :
          LET r == creator.written[i]
          IN  \/ /\ r.kind = "Extent"
                 /\ \/ Patch(r.off + 12, ExtentTypeByte("Reference"), "retyped")
                    \/ Patch(r.off + 21, Xor8(archive[r.off + 22], 1), "checksum")
                    \/ Patch(r.off, 9, "renumbered")
              \/ /\ r.kind = "Payload"
                 /\ Patch(r.off, Xor8(archive[r.off + 1], 1), "payload")
              \/ /\ r.kind = "File"
                 /\ \/ \E t \in {"HardLink", "CharDevice", "BlockDevice", "FIFO"} :
                          Patch(r.off + 20, FileTypeByte(t), "retyped file")
                    \/ /\ r.header.file_type = "Regular"
                       /\ Patch(r.off + 16, 1, "resized")

Next ==
    \/ New
    \/ \E s \in AddFileSources, a \in ArchivePaths : AddFile(s, a)
    \/ \E s \in AddDirectorySources, b \in ArchiveBases, ord \in ReadDirOrders :
          AddDirectory(s, b, ord)
    \/ Finish
    \/ Damage
    \/ ExtractorNew
    \/ ExtractNextFile
    \/ ExtractExtent
    \/ ListFiles

Spec == Init /\ [][Next]_vars

(***************************************************************************)
(* The codec on its own: one header value is written with a block size and *)
(* the bytes written are read back with the same block size.               *)
(***************************************************************************)
CodecBlockSizes == {0, 8, 20, 32}

ArchiveHeaders(B) == {[version |-> v, block_size |-> B] : v \in {REFTAR_VERSION, 2}}

ExtentHeaders ==
    [extent_id : {0, 5}, length_in_blocks : {0, 1},
     extent_type : {"Data", "Sparse", "Reference"},
     source_extent_start : {0, 32}, checksum : {<<0, 0, 0, 0>>, <<204, 159, 49, 98>>}]

\* "", "tmpfs", "a" and a NUL, 129 times "a"
FsTypes == {<<>>, SRC_FS_TYPE, <<97, 0>>, [i \in 1..129 |-> 97]}
\* 0, 3, 40 and 2^96 + 3
FileSizes == {U128(0), U128(3), U128(40), [lo |-> 3, mid |-> 0, hi |-> 1]}
\* names "p" and "e" with an acute accent
FileHeaders ==
    {[NullFileHeader EXCEPT !.file_type = t, !.file_size = n, !.inline_data = d,
                            !.source_filesystem_type = f, !.file_name = nm,
                            !.uid = SRC_UID]
       : t \in {"Regular", "Directory", "SymbolicLink"}, n \in FileSizes,
         d \in {<<>>, <<7, 8, 9>>}, f \in FsTypes, nm \in {<<112>>, <<195, 169>>}}

InitCodec ==
    /\ codec = NoCodec
    /\ block_size \in CodecBlockSizes
    /\ overflow_checks \in BOOLEAN
    /\ phase = "codec"
    /\ creator = NoCreator
    /\ calls = 0
    /\ archive = <<>>
    /\ damage = "none"
    /\ extractor = NoExtractor
    /\ lister = NoLister

\* write returned: out.err tells whether it panicked
Wrote(kind, h, out) ==
    /\ phase = "codec"
    /\ codec.pc = "idle"
    /\ codec' = [NoCodec EXCEPT !.pc = "written", !.kind = kind, !.header = h, !.out = out]
    /\ UNCHANGED <<block_size, overflow_checks, phase, creator, calls, archive, damage,
                   extractor, lister>>

WriteArchiveHeader(h) == Wrote("Archive", h, ArchiveHeaderWrite(h, overflow_checks))
WriteExtentHeader(h) == Wrote("Extent", h, ExtentHeaderWrite(h, block_size, overflow_checks))
WriteFileHeader(h) == Wrote("File", h, FileHeaderWrite(h, block_size))

\* read on the bytes a write that returned Ok produced
ReadBack(kind, back) ==
    /\ phase = "codec"
    /\ codec.pc = "written"
    /\ codec.kind = kind
    /\ codec.out.err = NoErr
    /\ codec' = [codec EXCEPT !.pc = "read", !.back = back]
    /\ UNCHANGED <<block_size, overflow_checks, phase, creator, calls, archive, damage,
                   extractor, lister>>

ReadArchiveHeader == ReadBack("Archive", ArchiveHeaderRead(codec.out.bytes, 0, overflow_checks))
ReadExtentHeader ==
    ReadBack("Extent", ExtentHeaderRead(codec.out.bytes, 0, block_size, overflow_checks))
ReadFileHeader == ReadBack("File", FileHeaderRead(codec.out.bytes, 0, block_size))

\* file lengths k * block_size + rest with k = i + 2^32 * j, as their 16
\* little-endian bytes, each with k as its 16 little-endian bytes
FileLengths(B) ==
    {[file_size |-> ToLe(i * B + rest, 4) \o ToLe(j * B, 12), blocks |-> ToLe(i, 4) \o ToLe(j, 12),
      rest |-> rest] : i \in 0..3, j \in 0..1, rest \in {0, 1, B - 1} \cap 0..(B - 1)}

\* the block loop of write_file_extents on a file of this length: out is the
\* number of iterations, a u32
CountBlocks(n) ==
    /\ phase = "codec"
    /\ codec.pc = "idle"
    /\ block_size > 0
    /\ codec' = [NoCodec EXCEPT !.pc = "counted", !.kind = "Blocks", !.header = n,
                                !.out = [err |-> NoErr,
                                         bytes |-> NumBlocks(n.file_size, block_size)]]
    /\ UNCHANGED <<block_size, overflow_checks, phase, creator, calls, archive, damage,
                   extractor, lister>>

NextCodec ==
    \/ \E n \in FileLengths(block_size) : CountBlocks(n)
    \/ \E h \in ArchiveHeaders(block_size) : WriteArchiveHeader(h)
    \/ \E h \in ExtentHeaders : WriteExtentHeader(h)
    \/ \E h \in FileHeaders : WriteFileHeader(h)
    \/ ReadArchiveHeader
    \/ ReadExtentHeader
    \/ ReadFileHeader

SpecCodec == InitCodec /\ [][NextCodec]_vars

(***************************************************************************)
(* What the creator was given and what the extractor left, for the         *)
(* properties below.                                                       *)
(***************************************************************************)
Records(kind) == {i \in DOMAIN creator.written : creator.written[i].kind = kind}

\* extract_all has returned
Extracted == phase = "extract" /\ extractor.pc = "done"

\* the archive is the one the creator wrote
Intact == damage = "none"

\* the creator has returned Ok from every call so far and the archive is not
\* yet handed on: what the creator wrote is examined here, and no later step
\* touches the creator
Creating == phase \in {"create", "ready"} /\ creator.err = NoErr

\* where extract_next_file puts the entry of a FileHeader
OutputPath(h) == Normalize(PathJoin(PathJoin(OUTPUT_DIR, h.file_path), h.file_name))

\* the entries no later entry of the archive replaces
Entries ==
    {i \in Records("File") :
        \A j \in Records("File") :
            j > i => OutputPath(creator.written[j].header) # OutputPath(creator.written[i].header)}

\* the output node of an entry has the kind, the length and the bytes of its source
SameAsSource(fs, rec) ==
    LET k == OutputPath(rec.header)
        src == Metadata(rec.source)
    IN  /\ k \in DOMAIN fs
        /\ IF src.kind = "dir" THEN fs[k].kind = "dir"
           ELSE fs[k].kind = "file" /\ fs[k].data = src.data

\* the output node of an entry starts with the bytes of its source
StartsWithSource(fs, rec) ==
    LET k == OutputPath(rec.header)
        src == Metadata(rec.source)
    IN  /\ k \in DOMAIN fs
        /\ src.kind # "dir" =>
              /\ Len(fs[k].data) >= Len(src.data)
              /\ SubSeq(fs[k].data, 1, Len(src.data)) = src.data

\* the ExtentHeader the archive holds where the creator wrote its i-th record
ExtentAt(i) ==
    ExtentHeaderRead(creator.archive, creator.written[i].off, block_size, overflow_checks).val

\* the block of the source file the i-th record, an ExtentHeader, was written for
SourceBlock(i) ==
    LET data == Metadata(creator.written[i].source).data
        start == creator.written[i].header.source_extent_start
        got == IF start + block_size <= Len(data) THEN block_size ELSE Len(data) - start
    IN  Slice(data, start, got) \o Zeros(block_size - got)

\* two blocks of the sources added differ and have the same checksum
Collided ==
    \E i, j \in Records("Extent") :
        /\ creator.written[i].header.checksum = creator.written[j].header.checksum
        /\ SourceBlock(i) # SourceBlock(j)

(***************************************************************************)
(* C1.  Round trip: when extract_all has returned on the archive the       *)
(* creator wrote, it returned Ok and every entry's output node holds       *)
(* exactly the bytes of its source, no more and no fewer.  Block sizes     *)
(* below the size of an ExtentHeader are left out.                         *)
(***************************************************************************)
RoundTrip ==
    (Extracted /\ Intact /\ block_size >= EXTENT_HEADER_SIZE) =>
        /\ extractor.result = "Ok"
        /\ \A i \in Entries : SameAsSource(extractor.disk["unsupported"], creator.written[i])

(***************************************************************************)
(* C2.  Reflink equivalence: when extract_all has returned on the archive  *)
(* the creator wrote and no try_reflink_range call was refused, the output *)
(* tree where every call cloned equals the output tree where every call    *)
(* returned Ok(false).  Archives of colliding blocks and block sizes below *)
(* the size of an ExtentHeader are left out.                               *)
(***************************************************************************)
ReflinkEquivalence ==
    (Extracted /\ Intact /\ ~extractor.refused /\ ~Collided
       /\ block_size >= EXTENT_HEADER_SIZE) =>
        extractor.disk["cloned"] = extractor.disk["unsupported"]

(***************************************************************************)
(* C3.  No silent corruption under a checksum collision: when two blocks   *)
(* of the sources differ and have the same CRC-32, extract_all on the      *)
(* creator's archive either fails with the checksum error or leaves, for   *)
(* every entry, the bytes of its source.                                   *)
(***************************************************************************)
NoSilentCorruption ==
    (Extracted /\ Intact /\ Collided /\ block_size >= EXTENT_HEADER_SIZE) =>
        \/ extractor.result = ErrChecksum
        \/ \A i \in Entries :
              StartsWithSource(extractor.disk["unsupported"], creator.written[i])

(***************************************************************************)
(* C4.  End of file: extract_all returns Ok only on an archive that ends   *)
(* at the start of a FileHeader or after the last record; on an archive    *)
(* cut inside a record it returns an error.                                *)
(***************************************************************************)
AtFileBoundary ==
    Len(archive) \in {creator.written[i].off : i \in Records("File")} \cup {Len(creator.archive)}

EofIsFatal ==
    (Extracted /\ damage \in {"none", "truncated"} /\ extractor.result = "Ok"
       /\ block_size >= EXTENT_HEADER_SIZE) => AtFileBoundary

(***************************************************************************)
(* C5.  At most one Data per extent_id: of two ExtentHeaders of the        *)
(* creator's archive that carry the same extent_id, the later one is a     *)
(* Reference.                                                              *)
(***************************************************************************)
AtMostOneData ==
    Creating =>
        \A i, j \in Records("Extent") :
            (i < j /\ ExtentAt(i).extent_id = ExtentAt(j).extent_id) =>
                ExtentAt(j).extent_type = "Reference"

\* an archive with a Data extent and, in a later file, a Reference to it
DataThenReference ==
    /\ creator.err = NoErr
    /\ \E i, j \in Records("Extent") :
          /\ i < j
          /\ ExtentAt(i).extent_id = ExtentAt(j).extent_id
          /\ ExtentAt(i).extent_type = "Data"
          /\ ExtentAt(j).extent_type = "Reference"
          /\ \E f \in Records("File") : i < f /\ f < j

(***************************************************************************)
(* C6.  References are forward-only: every Reference of the creator's      *)
(* archive comes after a Data extent with its extent_id, and extract_all   *)
(* on that archive never fails with the unknown-extent error.              *)
(***************************************************************************)
ForwardOnly ==
    /\ Creating =>
          \A j \in Records("Extent") :
              ExtentAt(j).extent_type = "Reference" =>
                  \E i \in Records("Extent") :
                      /\ i < j
                      /\ ExtentAt(i).extent_type = "Data"
                      /\ ExtentAt(i).extent_id = ExtentAt(j).extent_id
    /\ (Extracted /\ Intact) => extractor.result # ErrUnknownExtent

\* extract_all returned Ok on an archive with a Reference in it
ReferenceExtracted ==
    /\ Extracted
    /\ Intact
    /\ extractor.result = "Ok"
    /\ \E j \in Records("Extent") : ExtentAt(j).extent_type = "Reference"

(***************************************************************************)
(* C7.  A dangling reference is fatal: when the next record of the extent  *)
(* loop is a Reference whose extent_id is not in the extent cache, the     *)
(* step ends extract_all with the unknown-extent error and leaves the      *)
(* output tree as it was.                                                  *)
(***************************************************************************)
NextExtent == ExtentHeaderRead(archive, extractor.pos, extractor.block_size, overflow_checks)

AtDanglingReference ==
    /\ phase = "extract"
    /\ extractor.pc = "extents"
    /\ NextExtent.err = NoErr
    /\ NextExtent.val.extent_type = "Reference"
    /\ NextExtent.val.extent_id \notin DOMAIN extractor.extent_cache

DanglingIsFatal ==
    [][AtDanglingReference =>
          /\ extractor'.pc = "done"
          /\ extractor'.result = ErrUnknownExtent
          /\ extractor'.disk = extractor.disk]_vars

\* extract_all returned the unknown-extent error after it had written an extent
DanglingAfterData ==
    /\ Extracted
    /\ extractor.result = ErrUnknownExtent
    /\ extractor.extent_cache # <<>>

(***************************************************************************)
(* C8.  A checksum mismatch is fatal and precedes the write: when the next *)
(* record of the extent loop is a Data extent whose payload does not have  *)
(* the CRC-32 its header stores, the step ends extract_all with the        *)
(* checksum error and leaves the output tree and the extent cache as they  *)
(* were.                                                                   *)
(***************************************************************************)
NextPayload ==
    ReadExact(archive, NextExtent.pos, NextExtent.val.length_in_blocks * extractor.block_size)

AtBadChecksum ==
    /\ phase = "extract"
    /\ extractor.pc = "extents"
    /\ NextExtent.err = NoErr
    /\ NextExtent.val.extent_type = "Data"
    /\ NextPayload.err = NoErr
    /\ Crc32(NextPayload.val) # NextExtent.val.checksum

MismatchIsFatal ==
    [][AtBadChecksum =>
          /\ extractor'.pc = "done"
          /\ extractor'.result = ErrChecksum
          /\ extractor'.disk = extractor.disk
          /\ extractor'.extent_cache = extractor.extent_cache]_vars

\* extract_all returned the checksum error after it had written an extent,
\* and the bytes of that extent are in the output file
MismatchAfterData ==
    /\ Extracted
    /\ extractor.result = ErrChecksum
    /\ \E id \in DOMAIN extractor.extent_cache :
          LET loc == extractor.extent_cache[id].file_location.val
              data == extractor.extent_cache[id].data
          IN  Slice(extractor.disk["unsupported"][loc.path].data, loc.offset, Len(data)) = data

(***************************************************************************)
(* C9.  Format round trip.  As stated: for every ArchiveHeader,            *)
(* ExtentHeader and FileHeader value and every block size, reading the     *)
(* bytes that write produced returns the value written and consumes        *)
(* exactly the bytes written.                                              *)
(***************************************************************************)
ReadBackSame ==
    /\ codec.back.err = NoErr
    /\ codec.back.val = codec.header
    /\ codec.back.pos = Len(codec.out.bytes)

RoundTripOfAnyHeader == codec.pc = "read" => ReadBackSame

\* a FileHeader the format can hold: inline_data is the whole content of a
\* regular file shorter than a block and is empty otherwise, file_size fits
\* in 12 bytes, the filesystem type fits in its 128 bytes and ends with no NUL
Representable(h, B) ==
    /\ IF h.file_type = "Regular" /\ U128Lt(h.file_size, B)
       THEN Len(h.inline_data) = h.file_size.lo
       ELSE h.inline_data = <<>>
    /\ h.file_size.hi = 0
    /\ Len(h.source_filesystem_type) <= FS_TYPE_LEN
    /\ TrimEndNul(h.source_filesystem_type) = h.source_filesystem_type

(***************************************************************************)
(* C9, amended: whenever write returns, reading the bytes it produced      *)
(* returns the value written and consumes exactly those bytes, for every   *)
(* ArchiveHeader and ExtentHeader, and for every FileHeader the format can *)
(* hold.                                                                   *)
(***************************************************************************)
RoundTripOfRepresentable ==
    (codec.pc = "read" /\ (codec.kind = "File" => Representable(codec.header, block_size))) =>
        ReadBackSame

\* a FileHeader with inline data was written and read back
InlineReadBack ==
    /\ codec.pc = "read"
    /\ codec.kind = "File"
    /\ codec.header.inline_data # <<>>
    /\ Representable(codec.header, block_size)
    /\ codec.back.val.inline_data = codec.header.inline_data

(***************************************************************************)
(* C10.  Alignment: while the creator's archive is extracted, the position *)
(* after the ArchiveHeader, after every FileHeader, after every            *)
(* ExtentHeader and after every Data payload read is a multiple of the     *)
(* block size.                                                             *)
(***************************************************************************)
Aligned ==
    (phase = "extract" /\ Intact) =>
        \A i \in DOMAIN extractor.reads : extractor.reads[i].pos % extractor.block_size = 0

(***************************************************************************)
(* C11.  Dedup key stability: in the creator's archive the first block     *)
(* with a checksum is a Data extent with an id no earlier extent carries,  *)
(* followed by its payload of one block; every later block with that       *)
(* checksum is a Reference with the same id and no payload; and an entry   *)
(* of extent_map, once inserted, is never changed or removed.              *)
(***************************************************************************)
\* the extents written before the j-th record with the checksum of the j-th
EarlierSame(j) ==
    {i \in Records("Extent") : i < j /\ ExtentAt(i).checksum = ExtentAt(j).checksum}

HasPayload(j) ==
    /\ j + 1 \in Records("Payload")
    /\ creator.written[j + 1].len = block_size
    /\ Crc32(Slice(creator.archive, creator.written[j + 1].off, block_size))
          = ExtentAt(j).checksum

DedupEmitted ==
    Creating =>
        \A j \in Records("Extent") :
            IF EarlierSame(j) = {}
            THEN /\ ExtentAt(j).extent_type = "Data"
                 /\ \A i \in Records("Extent") :
                       i < j => ExtentAt(i).extent_id # ExtentAt(j).extent_id
                 /\ HasPayload(j)
            ELSE /\ ExtentAt(j).extent_type = "Reference"
                 /\ \A i \in EarlierSame(j) : ExtentAt(i).extent_id = ExtentAt(j).extent_id
                 /\ j + 1 \notin Records("Payload")

ExtentMapKept ==
    \A k \in DOMAIN creator.extent_map :
        k \in DOMAIN creator'.extent_map /\ creator'.extent_map[k] = creator.extent_map[k]

DedupKeyStable == []DedupEmitted /\ [][ExtentMapKept]_vars

\* a block whose checksum was seen in an earlier file, and again two entries
\* in extent_map
SameChecksumInLaterFile ==
    /\ creator.err = NoErr
    /\ Cardinality(DOMAIN creator.extent_map) >= 2
    /\ \E j \in Records("Extent") :
          \E i \in EarlierSame(j) : \E f \in Records("File") : i < f /\ f < j

(***************************************************************************)
(* C12.  Inline rule: a FileHeader the creator wrote carries inline_data   *)
(* exactly when its type is Regular and 0 < file_size < block_size; the    *)
(* inline data then has file_size bytes and are the bytes of the source,   *)
(* and the record after that FileHeader is not an extent.                  *)
(***************************************************************************)
InlineRule ==
    creator.err = NoErr =>
        \A f \in Records("File") :
            LET h == creator.written[f].header
                small == h.file_type = "Regular" /\ U128Pos(h.file_size)
                           /\ U128Lt(h.file_size, block_size)
            IN  /\ (h.inline_data # <<>>) <=> small
                /\ small =>
                      /\ Len(h.inline_data) = h.file_size.lo
                      /\ h.inline_data = Metadata(creator.written[f].source).data
                      /\ f + 1 \notin Records("Extent")

\* an inline file was written, and a file with extents after it
InlineThenExtents ==
    /\ creator.err = NoErr
    /\ \E f, g \in Records("File") :
          /\ f < g
          /\ creator.written[f].header.inline_data # <<>>
          /\ g + 1 \in Records("Extent")

(***************************************************************************)
(* C13.  Extent coverage: for a regular file of file_size bytes, the block *)
(* loop of write_file_extents writes ceil(file_size / block_size)          *)
(* ExtentRecords, none for a file of size 0: for file_size = k *           *)
(* block_size + rest with rest < block_size, that is k records when rest   *)
(* is 0 and k + 1 otherwise, with nothing cut off the count.               *)
(***************************************************************************)
BlockCount ==
    codec.pc = "counted" =>
        LET k == codec.header.blocks
            up == IF codec.header.rest > 0 THEN 1 ELSE 0
        IN  codec.out.bytes \o Zeros(12) = <<k[1] + up>> \o Tail(k)

(***************************************************************************)
(* C14.  Unsupported file types are skipped: when the next FileHeader has  *)
(* the type HardLink, CharDevice, BlockDevice or FIFO, extract_next_file   *)
(* consumes that header and no more, makes no node at its output path,     *)
(* returns Ok(true), and extract_all goes on with the next record.         *)
(***************************************************************************)
NextFile == FileHeaderRead(archive, extractor.pos, extractor.block_size)

AtUnsupported ==
    /\ phase = "extract"
    /\ extractor.pc = "file"
    /\ NextFile.err = NoErr
    /\ NextFile.val.file_type \in {"HardLink", "CharDevice", "BlockDevice", "FIFO"}

SkipsUnsupported ==
    [][AtUnsupported =>
          /\ extractor'.pc = "file"
          /\ extractor'.pos = NextFile.pos
          /\ \A m \in Modes :
                OutputPath(NextFile.val) \in DOMAIN extractor'.disk[m]
                    => OutputPath(NextFile.val) \in DOMAIN extractor.disk[m]]_vars

(***************************************************************************)
(* C15.  Reflink failure never propagates: when the next record of the     *)
(* extent loop is a Reference whose extent_id is cached, the step ends     *)
(* with no error and with current_offset advanced by the length of the     *)
(* cached data, whatever try_reflink_range returned; and wherever the      *)
(* clone was not made (Ok(false) or Err), the cached bytes are in the      *)
(* output file at the old current_offset.                                  *)
(***************************************************************************)
AtCachedReference ==
    /\ phase = "extract"
    /\ extractor.pc = "extents"
    /\ NextExtent.err = NoErr
    /\ NextExtent.val.extent_type = "Reference"
    /\ NextExtent.val.extent_id \in DOMAIN extractor.extent_cache

ReflinkNeverPropagates ==
    [][AtCachedReference =>
          LET cached == extractor.extent_cache[NextExtent.val.extent_id]
              off == extractor.cur.current_offset
              file == extractor.cur.file
          IN  /\ extractor'.result = "none"
              /\ extractor'.pc \in {"extents", "file"}
              /\ IF extractor'.pc = "extents"
                 THEN extractor'.cur.current_offset = off + Len(cached.data)
                 ELSE off + Len(cached.data) >= extractor.cur.file_size.lo
              /\ \A m \in Modes :
                    (m # "cloned" \/ ReflinkRefused(extractor.disk[m], m, cached, file, off))
                        => Slice(extractor'.disk[m][file].data, off, Len(cached.data))
                             = cached.data]_vars

\* extract_all returned Ok after a clone request was refused and after a
\* Reference was resolved where every request fails
CopiedAfterRefusal ==
    /\ Extracted
    /\ extractor.result = "Ok"
    /\ extractor.refused
    /\ \E j \in Records("Extent") : ExtentAt(j).extent_type = "Reference"

(***************************************************************************)
(* C16.  Listing walks the same records as extraction: when extract_all    *)
(* returned Ok on an archive, list_files on a new extractor over the same  *)
(* archive returns Ok with one entry per FileHeader extract_all read, in   *)
(* the same order, and both read the same FileHeaders and ExtentHeaders at *)
(* the same positions.                                                     *)
(***************************************************************************)
\* the FileHeader and ExtentHeader reads of a log
HeaderReads(reads) == SelectSeq(reads, LAMBDA r : r.kind \in {"FileHeader", "ExtentHeader"})

\* the names list_files gives the FileHeaders that extract_all read
ExtractedNames ==
    LET at == {i \in DOMAIN extractor.reads : extractor.reads[i].kind = "FileHeader"}
        name(i) ==
            LET h == FileHeaderRead(archive, extractor.reads[i - 1].pos,
                                    extractor.block_size).val
            IN  h.file_path \o <<Sep>> \o h.file_name
        RECURSIVE From(_)
        From(i) == IF i > Len(extractor.reads) THEN <<>>
                   ELSE (IF i \in at THEN <<name(i)>> ELSE <<>>) \o From(i + 1)
    IN  From(1)

ListingMatches ==
    (Extracted /\ extractor.result = "Ok" /\ lister.pc = "done") =>
        /\ lister.err = NoErr
        /\ lister.files = ExtractedNames
        /\ HeaderReads(lister.e.reads) = HeaderReads(extractor.reads)

(***************************************************************************)
(* C17.  The empty archive: the first record the creator writes is the     *)
(* ArchiveHeader; after new and finish with no add call the archive is     *)
(* block_size bytes long (4096 for None), begins with the magic, and       *)
(* extract_all on it returns Ok and leaves the output tree as it was.      *)
(***************************************************************************)
\* new, then finish, with no add call, and the archive as finish left it
EmptyArchive == calls = 0 /\ phase \in {"ready", "extract"} /\ Intact

HeaderFirst ==
    phase \in {"create", "ready", "extract"} =>
        /\ creator.written # <<>>
        /\ \A i \in DOMAIN creator.written : creator.written[i].kind = "Archive" <=> i = 1

EmptyExtracts ==
    (EmptyArchive /\ Extracted) =>
        /\ extractor.result = "Ok"
        /\ \A m \in Modes : extractor.disk[m] = InitialFs

ExtentsReturnOk == extractor.pc = "extents" /\ extractor'.pc = "file"

ExtractedLength ==
    [][(Intact /\ ExtentsReturnOk) =>
          \A m \in Modes :
              Len(extractor'.disk[m][extractor.cur.output_path].data)
                 = extractor.cur.file_size.lo]_vars

(***************************************************************************)
(* C19.  Padding arithmetic: for every block size above 0, also below 12   *)
(* and below 25, ArchiveHeader::write and ExtentHeader::write return Ok    *)
(* and write L + ((block_size - L mod block_size) mod block_size) bytes,   *)
(* with L = 12 and L = 25, and the read of these bytes returns Ok having   *)
(* consumed as many.                                                       *)
(***************************************************************************)
PaddingArithmetic ==
    (block_size > 0 /\ codec.pc \in {"written", "read"} /\ codec.kind \in {"Archive", "Extent"}) =>
        LET L == IF codec.kind = "Archive" THEN ARCHIVE_HEADER_SIZE ELSE EXTENT_HEADER_SIZE
            slots == L + PadMod(block_size, L).pad
        IN  /\ codec.out.err = NoErr
            /\ Len(codec.out.bytes) = slots
            /\ codec.pc = "read" => codec.back.err = NoErr /\ codec.back.pos = slots

(***************************************************************************)
(* C20.  Extent-id allocation: after any add_file and add_directory calls  *)
(* that returned Ok, the k-th Data extent of the creator's archive, in     *)
(* archive order and counted from 0, carries extent id k, and              *)
(* next_extent_id is the number of Data extents: a Reference takes no id.  *)
(***************************************************************************)
DataIdsInOrder ==
    Creating =>
        LET data == {j \in Records("Extent") : ExtentAt(j).extent_type = "Data"}
        IN  /\ \A j \in data : ExtentAt(j).extent_id = Cardinality({i \in data : i < j})
            /\ creator.next_extent_id = Cardinality(data)

\* a Data extent was written after a Reference, and three ids are taken
DataAfterReference ==
    /\ Creating
    /\ creator.next_extent_id = 3
    /\ \E i, j \in Records("Extent") :
          /\ i < j
          /\ ExtentAt(i).extent_type = "Reference"
          /\ ExtentAt(j).extent_type = "Data"

(***************************************************************************)
(* C21.  Extractor record protocol: the first record read is the one       *)
(* ArchiveHeader; a FileHeader is read only between files and an           *)
(* ExtentHeader only inside a Regular file with empty inline_data and      *)
(* file_size > 0, while the bytes covered by its extents are below         *)
(* file_size; the extractor goes on to the next FileHeader only when the   *)
(* covered bytes have reached file_size.                                   *)
(***************************************************************************)
\* the bytes the extent h covers in the output file
Covers(h) ==
    IF h.extent_type = "Reference" THEN Len(extractor.extent_cache[h.extent_id].data)
    ELSE h.length_in_blocks * extractor.block_size

\* covered >= file_size, file_size a u128
Reached(covered, file_size) ==
    file_size.hi = 0 /\ file_size.mid = 0 /\ covered >= file_size.lo

\* the records read so far: one ArchiveHeader, first
ArchiveHeaderOnce ==
    \A i \in DOMAIN extractor.reads :
        (extractor.reads[i].kind = "ArchiveHeader") <=> (i = 1)

\* the record this step read (the payload of a Data extent is logged after
\* its ExtentHeader)
ReadKinds ==
    {extractor'.reads[i].kind : i \in (DOMAIN extractor'.reads) \ (DOMAIN extractor.reads)}

ProtocolStep ==
    /\ "FileHeader" \in ReadKinds =>
          /\ extractor.pc = "file"
          /\ WithExtents(NextFile.val) =>
                \/ extractor'.pc = "extents"
                \/ extractor'.pc = "done" /\ extractor'.result # "Ok"
    /\ "ExtentHeader" \in ReadKinds =>
          /\ extractor.pc = "extents"
          /\ WithExtents(extractor.cur.header)
          /\ ~Reached(extractor.cur.current_offset, extractor.cur.file_size)
    /\ extractor'.pc = "extents" => WithExtents(extractor'.cur.header)
    /\ ExtentsReturnOk =>
          Reached(extractor.cur.current_offset + Covers(NextExtent.val),
                  extractor.cur.file_size)

RecordProtocol == [](phase = "extract" => ArchiveHeaderOnce) /\ [][ProtocolStep]_vars

(***************************************************************************)
(* C22.  Directory archive paths: an add_directory(source, archive_base)   *)
(* call that returns Ok appends one FileHeader for source and one for      *)
(* every node below it, each once; the header of source comes first, is a  *)
(* Directory and sits at archive_base/basename(source); the header of the  *)
(* node at relative path r below source has file_path joined with          *)
(* file_name equal to archive_base/basename(source)/r, file_name the last  *)
(* segment and file_path the rest; the header of a directory precedes the  *)
(* headers of its contents.  Checked for an empty and a non-empty          *)
(* archive_base, on a tree two levels deep.                                *)
(***************************************************************************)
HeaderPath(h) == PathJoin(h.file_path, h.file_name)

\* the nodes below the source directory
Below(source) ==
    {p \in SourcePaths : Len(p) > Len(source) + 1
                         /\ SubSeq(p, 1, Len(source) + 1) = source \o <<Sep>>}

\* the path of p relative to the parent of source: basename(source)/r
FromBasename(source, p) ==
    PathFileName(source).val \o SubSeq(p, Len(source) + 1, Len(p))

\* the FileHeader records the step appended
NewFiles ==
    {i \in (DOMAIN creator'.written) \ (DOMAIN creator.written) :
        creator'.written[i].kind = "File"}

DirectoryAdded(source, archive_base, ord) ==
    /\ phase = "create"
    /\ calls' = calls + 1
    /\ creator' = add_directory(creator, block_size, overflow_checks, source, archive_base, ord)
    /\ creator'.err = NoErr

PathsUnder(source, archive_base) ==
    LET rec(i) == creator'.written[i]
    IN  /\ \A p \in {source} \cup Below(source) :
              Cardinality({i \in NewFiles : rec(i).source = p}) = 1
        /\ \A i \in NewFiles :
              /\ rec(i).source \in {source} \cup Below(source)
              /\ HeaderPath(rec(i).header)
                    = PathJoin(archive_base, FromBasename(source, rec(i).source))
              /\ rec(i).header.file_name = PathFileName(rec(i).source).val
              /\ rec(i).header.file_path
                    = PathParent(PathJoin(archive_base,
                                          FromBasename(source, rec(i).source))).val
              /\ IF rec(i).source = source
                 THEN /\ i = Len(creator.written) + 1
                      /\ rec(i).header.file_type = "Directory"
                 ELSE \E k \in NewFiles :
                         /\ k < i
                         /\ rec(k).source = PathParent(rec(i).source).val
                         /\ rec(k).header.file_type = "Directory"

DirectoryPaths ==
    [][\A source \in AddDirectorySources, archive_base \in ArchiveBases, ord \in ReadDirOrders :
          DirectoryAdded(source, archive_base, ord) => PathsUnder(source, archive_base)]_vars

\* add_directory("d", "/b") returned Ok: the file two levels down is at /b/d/k/e
NestedUnderBase ==
    /\ Creating
    /\ \E i \in Records("File") :
          /\ creator.written[i].source = P_d_k_e
          /\ creator.written[i].header.file_path = <<47, 98, 47, 100, 47, 107>>
          /\ creator.written[i].header.file_name = <<101>>

(***************************************************************************)
(* C23.  Extent cache: at every point of an extraction the cache holds     *)
(* exactly the ids of the Data extents read so far whose payload matched   *)
(* the checksum of their header; the entry of an id holds the payload of   *)
(* the last such extent, whose CRC-32 is the checksum of that header; a    *)
(* step removes no entry, and a step that read no Data payload (a          *)
(* FileHeader, a Sparse or a Reference extent) leaves the cache as it was. *)
(***************************************************************************)
\* the Data payloads read so far, as indices of the log of reads: the entry
\* before a payload is its ExtentHeader, the one before that ends where the
\* ExtentHeader begins
DataRead == {i \in DOMAIN extractor.reads : extractor.reads[i].kind = "Data"}

DataHeader(i) ==
    ExtentHeaderRead(archive, extractor.reads[i - 2].pos, extractor.block_size,
                     overflow_checks).val

DataPayload(i) ==
    SubSeq(archive, extractor.reads[i - 1].pos + 1, extractor.reads[i].pos)

Verified == {i \in DataRead : Crc32(DataPayload(i)) = DataHeader(i).checksum}

CacheHoldsVerified ==
    phase = "extract" =>
        /\ DOMAIN extractor.extent_cache = {DataHeader(i).extent_id : i \in Verified}
        /\ \A i \in Verified :
              (\A j \in Verified : DataHeader(j).extent_id = DataHeader(i).extent_id => j <= i)
                 => LET entry == extractor.extent_cache[DataHeader(i).extent_id]
                    IN  /\ entry.extent_id = DataHeader(i).extent_id
                        /\ entry.data = DataPayload(i)
                        /\ Crc32(entry.data) = DataHeader(i).checksum

CacheStep ==
    (phase = "extract" /\ phase' = "extract") =>
        /\ DOMAIN extractor.extent_cache \subseteq DOMAIN extractor'.extent_cache
        /\ "Data" \notin ReadKinds => extractor'.extent_cache = extractor.extent_cache

ExtentCacheInvariant == []CacheHoldsVerified /\ [][CacheStep]_vars

\* extract_all returned Ok having resolved, in a second file, a Reference to a
\* Data extent of the first, which is still in the cache
CacheAcrossFiles ==
    /\ Extracted
    /\ extractor.result = "Ok"
    /\ DOMAIN extractor.extent_cache # {}
    /\ \E i, j, k \in DOMAIN extractor.reads :
          /\ i < j /\ j < k
          /\ i \in Verified
          /\ extractor.reads[j].kind = "FileHeader"
          /\ extractor.reads[k].kind = "ExtentHeader"
          /\ LET h == ExtentHeaderRead(archive, extractor.reads[k - 1].pos,
                                       extractor.block_size, overflow_checks).val
             IN  h.extent_type = "Reference" /\ h.extent_id = DataHeader(i).extent_id

(***************************************************************************)
(* C25.  Output containment: whatever file_path and file_name the          *)
(* FileHeaders of the archive carry, every node extract_all makes or       *)
(* changes lies under output_dir.                                          *)
(***************************************************************************)
\* p is output_dir or a path below it
UnderOutputDir(p) ==
    \/ p = OUTPUT_DIR
    \/ /\ Len(p) > Len(OUTPUT_DIR) + 1
       /\ SubSeq(p, 1, Len(OUTPUT_DIR) + 1) = OUTPUT_DIR \o <<Sep>>

\* the nodes of the disk fs that were not there, or not as they are, before
Touched(fs) == {p \in DOMAIN fs : p \notin DOMAIN InitialFs \/ fs[p] # InitialFs[p]}

OutputContained ==
    phase = "extract" =>
        \A m \in Modes : \A p \in Touched(extractor.disk[m]) : UnderOutputDir(p)

=============================================================================
